---- MODULE Spec2Model ----
(***************************************************************************)
(* django-pydantic-field: the schema adapter (BaseSchemaAdapter and the    *)
(* pydantic-v2 SchemaAdapter), its binding, lazy schema resolution, the    *)
(* cached prepared_schema / type_adapter and validation of values.         *)
(*                                                                         *)
(* Type objects, exceptions and values are modelled as records; the        *)
(* adapter's instance __dict__ is a record whose cached_property slots     *)
(* hold Missing while the property has not been computed.                  *)
(***************************************************************************)
EXTENDS Integers, Sequences, FiniteSets, TLC

(***************************************************************************)
(* Bounds of the model.                                                    *)
(***************************************************************************)
\* number of owner classes an adapter can be bound to
NumOwners == 2

(***************************************************************************)
(* Type objects and exceptions.                                            *)
(*   k = "none"      the value None (no schema)                            *)
(*   k = "cls"       a class or special form: int, str, NoneType, Foo,     *)
(*                   list, Union                                           *)
(*   k = "str"       a string annotation                                   *)
(*   k = "ref"       typing.ForwardRef(name)                               *)
(*   k = "alias"     a typing generic alias: typing.List[..],              *)
(*                   typing.Optional[..]; name is its get_origin           *)
(*   k = "gen"       a types.GenericAlias: list[..]                        *)
(*   k = "container" GenericContainer(origin, args)                        *)
(*   k = "exc"       a raised exception of class `name`                    *)
(***************************************************************************)
Mk(k, name, args) == [k |-> k, name |-> name, args |-> args, msg |-> <<>>, cause |-> ""]

NoneSchema == Mk("none", "", <<>>)
Missing == Mk("missing", "", <<>>)
Cls(n) == Mk("cls", n, <<>>)
Str(n) == Mk("str", n, <<>>)
Ref(n) == Mk("ref", n, <<>>)
Alias(o, args) == Mk("alias", o, args)
Gen(o, args) == Mk("gen", o, args)
Container(o, args) == Mk("container", o, args)
NoneT == Cls("NoneType")

Exc(name, msg, cause) == [k |-> "exc", name |-> name, args |-> <<>>, msg |-> msg, cause |-> cause]
IsExc(x) == x.k = "exc"

Owners == 1..NumOwners
NoOwner == 0
NoAttname == "<None>"
AttNames == {"f", "g"}

\* names every namespace resolves (eval adds __builtins__), and the names a
\* module defines while it loads
Builtins == {"int", "str", "list"}
ModuleNames == {"Foo"}

(***************************************************************************)
(* Annotation and namespace helpers (_internal/_annotation_utils.py).      *)
(***************************************************************************)
\* get_annotated_type(obj, field): the raw annotation, None when the owner
\* has no annotation under that name (KeyError / AttributeError -> default)
get_annotated_type(annots, parent, attname) ==
    IF parent \in Owners /\ attname \in AttNames /\ annots[parent][attname].k # "missing"
    THEN annots[parent][attname]
    ELSE NoneSchema

\* get_namespace(cls): class-local names chained over the module globals; for
\* cls = None both lookups fail and the namespace is empty.  The evaluation
\* of a reference adds the builtins to whatever namespace it is given.
get_namespace(parent, defined) ==
    IF parent = NoOwner THEN {} ELSE defined

evaluate_forward_ref(ref, ns) ==
    IF ref.name \in (ns \cup Builtins)
    THEN Cls(ref.name)
    ELSE Exc("NameError", <<"name is not defined", NoOwner, ref.name>>, "")

(***************************************************************************)
(* GenericContainer (compat/django.py).                                    *)
(***************************************************************************)
RECURSIVE Dedup(_)
Dedup(seq) ==
    IF seq = <<>> THEN <<>>
    ELSE LET rest == Dedup(Tail(seq))
         IN <<Head(seq)>> \o SelectSeq(rest, LAMBDA x : x # Head(seq))

RECURSIVE FlattenUnion(_)
FlattenUnion(seq) ==
    IF seq = <<>> THEN <<>>
    ELSE LET h == Head(seq)
         IN (IF h.k = "alias" /\ h.name = "Union" THEN h.args ELSE <<h>>)
            \o FlattenUnion(Tail(seq))

\* origin[args]: typing.Union flattens nested unions, drops duplicates and
\* collapses to the single member; typing.Literal drops duplicates; both and
\* typing.Annotated give typing aliases; a class origin gives a
\* types.GenericAlias
Subscript(origin, args) ==
    IF origin = "Union"
    THEN LET members == Dedup(FlattenUnion(args))
         IN IF Len(members) = 1 THEN members[1] ELSE Alias("Union", members)
    ELSE IF origin = "Literal" THEN Alias("Literal", Dedup(args))
    ELSE IF origin = "Annotated" THEN Alias("Annotated", args)
    ELSE Gen(origin, args)

\* typing.Optional[schema]
Optional(schema) == Subscript("Union", <<schema, NoneT>>)

\* a dataclass instance with its field values, and DataclassContainer(type(value),
\* dataclasses.asdict(value)) over fields that hold plain values
DataclassInstance(datacls, values) == Mk("dcinst", datacls, values)
DataclassContainer(datacls, kwargs) == Mk("dccontainer", datacls, kwargs)

\* fault: the metadata of an Annotated alias is dropped
annotated_origin_only(value) == <<Head(value.args)>>

\* args = (value.__origin__, *value.__metadata__)
annotated_args(value) == <<Head(value.args)>> \o Tail(value.args)

\* get_args(value), or the Annotated alias's origin and metadata
generic_args(value) ==
    IF value.k = "alias" /\ value.name = "Annotated" THEN annotated_args(value) ELSE value.args

\* GenericContainer.wrap
RECURSIVE wrap(_)
wrap(value) ==
    IF value.k \in {"alias", "gen"}
    THEN Container(value.name,
                   [i \in 1..Len(generic_args(value)) |-> wrap(generic_args(value)[i])])
    ELSE IF value.k = "dcinst" THEN DataclassContainer(value.name, value.args)
    ELSE value

\* GenericContainer.unwrap, and BaseContainer.unwrap which sends each kind of
\* container to its own class's unwrap
RECURSIVE unwrap(_)
RECURSIVE base_unwrap(_)
\* fault: an origin subscripted even with an empty argument tuple
unwrap_subscripting(value) ==
    IF value.k # "container" THEN value
    ELSE Subscript(value.name, [i \in 1..Len(value.args) |-> base_unwrap(value.args[i])])

unwrap(value) ==
    IF value.k # "container" THEN value
    ELSE IF value.args = <<>> THEN Cls(value.name)
    ELSE Subscript(value.name, [i \in 1..Len(value.args) |-> base_unwrap(value.args[i])])

base_unwrap(value) ==
    IF value.k = "dccontainer" THEN DataclassInstance(value.name, value.args)
    ELSE unwrap(value)

Min(S) == CHOOSE x \in S : \A y \in S : x <= y

(***************************************************************************)
(* Schema resolution (types.py, BaseSchemaAdapter).                        *)
(***************************************************************************)
\* fault: an adapter counts as bound once either half of the binding is set
bound_if_either(ad) == ad.parent_type # NoOwner \/ ad.attname # NoAttname

\* is_bound (property)
is_bound(ad) == ad.parent_type # NoOwner /\ ad.attname # NoAttname

\* tuple(map(...)): the first argument whose resolution raised propagates
first_raised(args) ==
    IF \E i \in 1..Len(args) : IsExc(args[i])
    THEN args[Min({i \in 1..Len(args) : IsExc(args[i])})]
    ELSE Missing

\* the origin of a container, as an object: a class or special form, or the
\* forward reference a types.GenericAlias(ForwardRef("list"), args) is built over
RefOrigin == "ForwardRef('list')"
origin_of(name) == IF name = RefOrigin THEN Ref("list") ELSE Cls(name)

\* fault: the arguments come back in reverse order
rebuild_reversed(origin, args) ==
    IF IsExc(origin) THEN origin
    ELSE IF first_raised(args).k # "missing"
    THEN first_raised(args)
    ELSE unwrap(Container(origin.name, [i \in 1..Len(args) |-> args[Len(args) + 1 - i]]))

\* GenericContainer.unwrap(GenericContainer(origin, tuple(args))), unless
\* resolving the origin or an argument raised
rebuild(origin, args) ==
    IF IsExc(origin) THEN origin
    ELSE IF first_raised(args).k # "missing"
    THEN first_raised(args)
    ELSE unwrap(Container(origin.name, args))

RECURSIVE resolve_schema_forward_ref(_, _, _)
resolve_wrapped(schema, wrapped, parent, defs) ==
    IF wrapped.k # "container" THEN schema
    ELSE rebuild(resolve_schema_forward_ref(origin_of(wrapped.name), parent, defs),
                 [i \in 1..Len(wrapped.args) |->
                     resolve_schema_forward_ref(wrapped.args[i], parent, defs)])

resolve_schema_forward_ref(schema, parent, defs) ==
    IF schema.k = "none" THEN NoneSchema
    ELSE IF schema.k = "ref"
    THEN evaluate_forward_ref(schema, get_namespace(parent, defs))
    ELSE resolve_wrapped(schema, wrap(schema), parent, defs)

ImproperlyConfigured(ad) ==
    IF is_bound(ad)
    THEN Exc("ImproperlyConfiguredSchema",
             <<"Annotation is not provided for", ad.parent_type, ad.attname>>, "")
    ELSE Exc("ImproperlyConfiguredSchema",
             <<"The adapter is accessed before it was bound", NoOwner, NoAttname>>, "")

\* schema = self.schema, or the owner's annotation when it is None and the
\* adapter is bound
guess_schema(ad, annots) ==
    IF ad.schema.k = "none" /\ is_bound(ad)
    THEN get_annotated_type(annots, ad.parent_type, ad.attname)
    ELSE ad.schema

\* a string becomes typing.ForwardRef(string)
as_forward_ref(schema) ==
    IF schema.k = "str" THEN Ref(schema.name) ELSE schema

\* fault: a resolution that hands None on
resolved_or_none(ad, schema) == schema

\* if schema is None: raise ImproperlyConfiguredSchema
resolved_or_error(ad, schema) ==
    IF schema.k = "none" THEN ImproperlyConfigured(ad) ELSE schema

\* _prepare_schema: the resolved schema, or the exception it raises
prepare_schema(ad, annots, defs) ==
    resolved_or_error(ad,
        resolve_schema_forward_ref(as_forward_ref(guess_schema(ad, annots)),
                                   ad.parent_type, defs))

(***************************************************************************)
(* Values and the validator (pydantic.TypeAdapter) built over a schema.    *)
(***************************************************************************)
\* a dict is a function from the keys it holds; an empty one holds none
EmptyMapping == [key \in {} |-> "None"]

\* dict.get(key, None)
Get(d, key) == IF key \in DOMAIN d THEN d[key] ELSE "None"

V(vk, items) == [vk |-> vk, items |-> items]
VNone == V("none", <<>>)
VInt == V("int", <<>>)
VStr == V("str", <<>>)
VDict == V("dict", <<>>)
VFoo == V("Foo", <<>>)
\* the string "1", an object with Foo's attributes, the JSON text of a value
VNumStr == V("numstr", <<>>)
VObj == V("obj", <<>>)
Json(v) == V("json", <<v>>)
VList(items) == V("list", items)
ValidationError == V("ValidationError", <<>>)
NoValue == V("novalue", <<>>)

Values == {VNone, VInt, VStr, VDict, VList(<<VDict>>)}

\* class Bar(BaseModel): a: Optional[int] = <the int>.  An instance holds the
\* value given for `a`, or nothing when `a` was left unset; a dict holds the
\* value under "a" or is empty
VBar(items) == V("Bar", items)
VDictOf(items) == V("dict", items)
BarInstances == {VBar(<<>>), VBar(<<VInt>>), VBar(<<VNone>>)}

\* instance.a
field_value(v) == IF v.items = <<>> THEN VInt ELSE v.items[1]

\* BaseModel.__eq__: the same class and the same field values
same_value(v, w) ==
    IF v.vk = "Bar" /\ w.vk = "Bar" THEN field_value(v) = field_value(w) ELSE v = w

all_items(items) ==
    IF \E i \in 1..Len(items) : items[i] = ValidationError
    THEN ValidationError ELSE VList(items)

first_valid(results) ==
    IF \A i \in 1..Len(results) : results[i] = ValidationError
    THEN ValidationError
    ELSE results[Min({i \in 1..Len(results) : results[i] # ValidationError})]

\* the value the validator returns for `v` under `schema`, ValidationError
\* when `v` does not conform
\* strict forbids coercion; from_attributes lets a model read an object
RECURSIVE validate(_, _, _, _)
validate(schema, v, strict, from_attributes) ==
    CASE schema.k = "cls" /\ schema.name = "int" ->
            IF v.vk = "int" THEN v
            ELSE IF v.vk = "numstr" /\ strict # "True" THEN VInt
            ELSE ValidationError
      [] schema.k = "cls" /\ schema.name = "str" ->
            IF v.vk = "str" THEN v ELSE ValidationError
      [] schema.k = "cls" /\ schema.name = "NoneType" ->
            IF v.vk = "none" THEN v ELSE ValidationError
      [] schema.k = "cls" /\ schema.name = "Foo" ->
            IF v.vk \in {"dict", "Foo"} THEN VFoo
            ELSE IF v.vk = "obj" /\ from_attributes = "True" THEN VFoo
            ELSE ValidationError
      [] schema.k = "cls" /\ schema.name = "Bar" ->
            IF v.vk = "Bar" THEN v
            ELSE IF v.vk # "dict" THEN ValidationError
            ELSE IF v.items = <<>> THEN VBar(<<>>)
            ELSE IF v.items[1].vk \in {"none", "int"} THEN VBar(<<v.items[1]>>)
            ELSE IF v.items[1].vk = "numstr" /\ strict # "True" THEN VBar(<<VInt>>)
            ELSE ValidationError
      [] schema.k \in {"alias", "gen"} /\ schema.name = "list" ->
            IF v.vk # "list" THEN ValidationError
            ELSE all_items([i \in 1..Len(v.items) |->
                               validate(schema.args[1], v.items[i], strict, from_attributes)])
      [] schema.k = "alias" /\ schema.name = "Union" ->
            first_valid([i \in 1..Len(schema.args) |->
                            validate(schema.args[i], v, strict, from_attributes)])
      [] OTHER -> ValidationError

TypeAdapter(schema, config) == Mk("TypeAdapter", config, <<schema>>)

(***************************************************************************)
(* Export options (v2/types.py, compat/deprecation.py).                    *)
(***************************************************************************)
\* ExportKwargs.__annotations__.keys()
ExportKeys == {"strict", "from_attributes", "mode", "include", "exclude", "by_alias",
               "exclude_unset", "exclude_defaults", "exclude_none", "round_trip", "warnings"}

\* _DEPRECATED_KWARGS
DeprecatedKeys == {"allow_nan", "indent", "separators", "skipkeys", "sort_keys"}

\* the v2 adapter is the one in use when pydantic is not 1.x
PYDANTIC_V1 == FALSE

\* the entries of a dict under the given keys
Restrict(d, keys) == [key \in (DOMAIN d) \cap keys |-> d[key]]

\* pops every deprecated key (with a DeprecationWarning); the dict afterwards
truncate_deprecated_v1_export_kwargs(kw) ==
    IF PYDANTIC_V1 THEN kw ELSE Restrict(kw, (DOMAIN kw) \ DeprecatedKeys)

\* fault: the export options are read out of the dict and left in it
get_common_keys(kw) ==
    [kwargs |-> kw, out |-> Restrict(kw, ExportKeys)]

\* {key: kwargs.pop(key) for key in common_keys}: the dict afterwards and the
\* export kwargs
pop_common_keys(kw) ==
    [kwargs |-> Restrict(kw, (DOMAIN kw) \ ExportKeys), out |-> Restrict(kw, ExportKeys)]

\* SchemaAdapter.extract_export_kwargs
extract_export_kwargs(kw) ==
    pop_common_keys(truncate_deprecated_v1_export_kwargs(kw))

(***************************************************************************)
(* State.                                                                  *)
(***************************************************************************)
VARIABLES
    instances,     \* adapter objects: the __dict__ each one owns (0: not created)
    dicts,         \* instance __dict__s: attributes and cached properties
    annotations,   \* __annotations__ of every owner class
    defined,       \* names the owners' module defines so far
    ret,           \* the last call: operation, adapter, what it returned or raised
    threads,       \* two threads sharing adapter 1: a bind() in progress, a reader
    kwargs,        \* a caller's mutable dict: a field's keyword arguments, a context
    fields,        \* the model fields: field i owns adapter i
    objects        \* the __dict__ of a model instance, per field attname

vars == <<instances, dicts, annotations, defined, ret, threads, kwargs, fields, objects>>

\* what no call on an adapter touches
elsewhere == <<kwargs, fields, objects>>

\* no field declared yet, no model instance
NoFields == <<>>
NoObjects == <<>>


AdapterIds == {1, 2}
NoInstance == 0
Configs == {"None", "ConfigDict"}
AllowNull == {"None", "False", "True"}

\* schemas a field can be declared with; None asks for the owner's annotation
Schemas == {NoneSchema, Cls("int"), Str("Foo"),
            Alias("list", <<Ref("Foo")>>), Alias("Union", <<Cls("int"), NoneT>>)}

\* what an owner can have under an annotated name
AnnotationChoices == {Missing, Cls("int"), Str("Foo")}

\* BaseSchemaAdapter.__init__
NewAdapter(schema, config, parent_type, attname, allow_null, export_kwargs) ==
    [schema |-> unwrap(schema), config |-> config,
     parent_type |-> parent_type, attname |-> attname, allow_null |-> allow_null,
     export_kwargs |-> export_kwargs,
     prepared_schema |-> Missing, type_adapter |-> Missing]

EmptyDict == NewAdapter(NoneSchema, "None", NoOwner, NoAttname, "None", EmptyMapping)

Exists(i) == instances[i] # NoInstance
Self(i) == dicts[instances[i]]

CallOps == {"bind", "prepared_schema", "validate_schema", "validate_python", "copy",
            "validate_json", "dump_python", "dump_json", "eq",
            "contribute_to_class", "reconstruct", "check", "to_python", "set_attribute",
            "is_bound", "get_bound_field", "get_adapter", "render", "parse"}

\* a call as its caller sees it: the operation, the adapter, the value argument,
\* what came back (out: a type, Returned or the exception raised; val: the
\* validated value), and the prepared_schema the adapter held when called
\* prev: how the adapter call before this one ended ("" when it returned)
Outcome(r) == IF r.op \in CallOps THEN (IF IsExc(r.out) THEN r.out.name ELSE "") ELSE r.prev

Ret(op, i, arg, out, val, found) ==
    [op |-> op, ad |-> i, arg |-> arg, out |-> out, val |-> val, found |-> found,
     prev |-> Outcome(ret), passed |-> EmptyMapping, given |-> EmptyMapping]
Returned == Mk("ok", "", <<>>)

\* a thread in bind() holds its arguments and the statement it is at; a reader
\* holds what it last read of the adapter
IdleThreads ==
    [binder |-> [pc |-> "idle", parent_type |-> NoOwner, attname |-> NoAttname],
     reader |-> [parent_type |-> NoOwner, attname |-> NoAttname, schema |-> Missing]]

\* the second annotated attribute never changes: only the first owner has it
StaticAnnotation(o) == IF o = 1 THEN Cls("str") ELSE Missing

Init ==
    /\ instances = [i \in AdapterIds |-> IF i = 1 THEN 1 ELSE NoInstance]
    /\ \E schema \in Schemas, config \in Configs, allow_null \in AllowNull,
          parent_type \in Owners \cup {NoOwner}, attname \in AttNames \cup {NoAttname} :
          dicts = [i \in AdapterIds |->
                     IF i = 1
                     THEN NewAdapter(schema, config, parent_type, attname, allow_null,
                                     EmptyMapping)
                     ELSE EmptyDict]
    /\ \E fs \in [Owners -> AnnotationChoices] :
          annotations = [o \in Owners |-> [a \in AttNames |->
                            IF a = "f" THEN fs[o] ELSE StaticAnnotation(o)]]
    /\ defined \in SUBSET ModuleNames
    /\ ret = [op |-> "init", ad |-> 1, arg |-> NoValue, out |-> Returned, val |-> NoValue,
            found |-> Missing, prev |-> "", passed |-> EmptyMapping,
            given |-> EmptyMapping]
    /\ threads = IdleThreads
    /\ kwargs = EmptyMapping
    /\ fields = NoFields
    /\ objects = NoObjects

(***************************************************************************)
(* Adapter operations: each gives the adapter's __dict__ after the call    *)
(* (ad) and what the call returned or raised (out, val).                   *)
(***************************************************************************)
\* fault: only an explicit False forbids None
unless_false(allow_null) == allow_null # "False"

\* if self.allow_null:
Truthy(allow_null) == allow_null = "True"

\* fault: a bind() that keeps the memoized schema
bind_keeping_prepared_schema(ad, parent_type, attname) ==
    [ad |-> [ad EXCEPT !.parent_type = parent_type, !.attname = attname],
     out |-> Returned]

\* BaseSchemaAdapter.bind: returns self
base_bind(ad, parent_type, attname) ==
    [ad |-> [ad EXCEPT !.parent_type = parent_type,
                       !.attname = attname,
                       !.prepared_schema = Missing],
     out |-> Returned]

\* fault: a bind() that resolves eagerly and raises on an incomplete binding
bind_resolving_eagerly(ad, parent_type, attname) ==
    [ad |-> [base_bind(ad, parent_type, attname).ad EXCEPT !.type_adapter = Missing],
     out |-> IF is_bound(base_bind(ad, parent_type, attname).ad)
             THEN Returned
             ELSE ImproperlyConfigured(base_bind(ad, parent_type, attname).ad)]

\* fault: a bind() that keeps the validator built for the old binding
bind_keeping_type_adapter(ad, parent_type, attname) == base_bind(ad, parent_type, attname)

\* SchemaAdapter.bind (v2): super().bind(), then drops the validator
bind(ad, parent_type, attname) ==
    [ad |-> [base_bind(ad, parent_type, attname).ad EXCEPT !.type_adapter = Missing],
     out |-> base_bind(ad, parent_type, attname).out]

\* fault: a cache that also stores what resolution raised
cache_even_raised(ad, schema) ==
    [ad |-> [ad EXCEPT !.prepared_schema = schema], out |-> schema]

\* cached_property.__get__ after the call: store the value unless it raised
cache_prepared_schema(ad, schema) ==
    IF IsExc(schema)
    THEN [ad |-> ad, out |-> schema]
    ELSE [ad |-> [ad EXCEPT !.prepared_schema = schema], out |-> schema]

\* fault: a plain property, resolved again on every access
recompute_prepared_schema(ad, annots, defs) ==
    cache_prepared_schema(ad, prepare_schema(ad, annots, defs))

\* prepared_schema = cached_property(_prepare_schema): the stored value when
\* there is one; otherwise compute and store
get_prepared_schema(ad, annots, defs) ==
    IF ad.prepared_schema.k # "missing"
    THEN [ad |-> ad, out |-> ad.prepared_schema]
    ELSE cache_prepared_schema(ad, prepare_schema(ad, annots, defs))

\* fault: a validator built over the prepared schema whatever allow_null is
build_type_adapter_ignoring_null(got) ==
    IF IsExc(got.out) THEN got
    ELSE [ad |-> [got.ad EXCEPT !.type_adapter = TypeAdapter(got.out, got.ad.config)],
          out |-> TypeAdapter(got.out, got.ad.config)]

\* the body of type_adapter, given what reading self.prepared_schema did
build_type_adapter(got) ==
    IF IsExc(got.out) THEN got
    ELSE [ad |-> [got.ad EXCEPT !.type_adapter =
                     TypeAdapter(IF Truthy(got.ad.allow_null)
                                 THEN Optional(got.out) ELSE got.out,
                                 got.ad.config)],
          out |-> TypeAdapter(IF Truthy(got.ad.allow_null)
                              THEN Optional(got.out) ELSE got.out,
                              got.ad.config)]

\* SchemaAdapter.type_adapter (cached_property)
get_type_adapter(ad, annots, defs) ==
    IF ad.type_adapter.k # "missing"
    THEN [ad |-> ad, out |-> ad.type_adapter]
    ELSE build_type_adapter(get_prepared_schema(ad, annots, defs))

\* fault: the exception propagates as it was raised
reraise(exc) == exc

\* raise ImproperlyConfiguredSchema(*exc.args) from exc, unless it is one
wrap_exception(exc) ==
    IF exc.name # "ImproperlyConfiguredSchema"
    THEN Exc("ImproperlyConfiguredSchema", exc.msg, exc.name)
    ELSE exc

validation_outcome(schema) ==
    IF IsExc(schema) THEN wrap_exception(schema) ELSE Returned

\* fault: the schema is read through the cached property
prepared_through_cache(ad, annots, defs) == get_prepared_schema(ad, annots, defs)

\* self._prepare_schema(), the method itself: what it returns is not stored
call_prepare_schema(ad, annots, defs) ==
    [ad |-> ad, out |-> prepare_schema(ad, annots, defs)]

\* BaseSchemaAdapter.validate_schema: the adapter's __dict__ afterwards and
\* None or the exception raised
validate_schema(ad, annots, defs) ==
    [ad |-> call_prepare_schema(ad, annots, defs).ad,
     out |-> validation_outcome(call_prepare_schema(ad, annots, defs).out)]

validated(ad, v, passed) ==
    [ad |-> ad,
     out |-> IF v = ValidationError
             THEN Exc("ValidationError", <<"invalid", NoOwner, NoAttname>>, "")
             ELSE Returned,
     val |-> IF v = ValidationError THEN NoValue ELSE v,
     passed |-> passed]

\* self.type_adapter.validate_python(value, strict=strict,
\* from_attributes=from_attributes), given what reading self.type_adapter did
run_validator(got, value, strict, from_attributes) ==
    IF IsExc(got.out)
    THEN [ad |-> got.ad, out |-> got.out, val |-> NoValue, passed |-> EmptyMapping]
    ELSE validated(got.ad, validate(got.out.args[1], value, strict, from_attributes),
                   [key \in {"strict", "from_attributes"} |->
                       IF key = "strict" THEN strict ELSE from_attributes])

\* fault: the stored option wins over the argument
stored_if_any(ad, key, given) ==
    IF key \in DOMAIN ad.export_kwargs THEN ad.export_kwargs[key] ELSE given

\* if strict is None: strict = self.export_kwargs.get("strict", None)
stored_unless_given(ad, key, given) ==
    IF given = "None" THEN Get(ad.export_kwargs, key) ELSE given

\* SchemaAdapter.validate_python
validate_python(ad, value, strict, from_attributes, annots, defs) ==
    run_validator(get_type_adapter(ad, annots, defs), value,
                  stored_unless_given(ad, "strict", strict),
                  stored_unless_given(ad, "from_attributes", from_attributes))

\* self.type_adapter.validate_json(value, strict=strict): text that is not
\* JSON does not validate
run_json_validator(got, value, strict) ==
    IF IsExc(got.out)
    THEN [ad |-> got.ad, out |-> got.out, val |-> NoValue, passed |-> EmptyMapping]
    ELSE validated(got.ad,
                   IF value.vk = "json"
                   THEN validate(got.out.args[1], value.items[1], strict, "None")
                   ELSE ValidationError,
                   [key \in {"strict"} |-> strict])

\* SchemaAdapter.validate_json
validate_json(ad, value, strict, annots, defs) ==
    run_json_validator(get_type_adapter(ad, annots, defs), value,
                       stored_unless_given(ad, "strict", strict))

\* SchemaAdapter._dump_python_kwargs: the export kwargs without the two
\* validation options (export_kwargs never changes, so neither does this)
dump_python_kwargs(ad) ==
    Restrict(ad.export_kwargs, (DOMAIN ad.export_kwargs) \ {"strict", "from_attributes"})

\* ChainMap(first, second) as **kwargs: the first mapping holding a key wins
ChainMap(first, second) ==
    [key \in (DOMAIN first) \cup (DOMAIN second) |->
        IF key \in DOMAIN first THEN first[key] ELSE second[key]]

\* keyword arguments pydantic's dump_python / dump_json take
SerializerKeys == ExportKeys \ {"strict", "from_attributes"}

\* the options under which the serializer leaves a model's field out
left_out(v, kw) ==
    \/ Get(kw, "exclude_unset") = "True" /\ v.items = <<>>
    \/ Get(kw, "exclude_defaults") = "True" /\ field_value(v) = VInt
    \/ Get(kw, "exclude_none") = "True" /\ field_value(v) = VNone
    \/ Get(kw, "exclude") = "a"
    \/ Get(kw, "include") \notin {"None", "a"}

\* what the serializer makes of a value: a model instance becomes the dict of
\* the fields the options keep, anything else is returned as it is
to_jsonable(v, kw) ==
    IF v.vk = "Bar"
    THEN VDictOf(IF left_out(v, kw) THEN <<>> ELSE <<field_value(v)>>)
    ELSE v

\* self.type_adapter.dump_python(value, **union_kwargs): an unexpected keyword
\* argument is a TypeError
run_serializer(got, value, union_kwargs) ==
    IF IsExc(got.out)
    THEN [ad |-> got.ad, out |-> got.out, val |-> NoValue, passed |-> EmptyMapping]
    ELSE [ad |-> got.ad,
          out |-> IF (DOMAIN union_kwargs) \subseteq SerializerKeys
                  THEN Returned
                  ELSE Exc("TypeError", <<"unexpected keyword argument", NoOwner, NoAttname>>, ""),
          val |-> IF (DOMAIN union_kwargs) \subseteq SerializerKeys
                  THEN to_jsonable(value, union_kwargs) ELSE NoValue,
          passed |-> union_kwargs]

\* SchemaAdapter.dump_python
dump_python(ad, value, override_kwargs, annots, defs) ==
    run_serializer(get_type_adapter(ad, annots, defs), value,
                   ChainMap(override_kwargs,
                            ChainMap(dump_python_kwargs(ad), [key \in {"mode"} |-> "json"])))

\* SchemaAdapter.dump_json
dump_json(ad, value, override_kwargs, annots, defs) ==
    run_serializer(get_type_adapter(ad, annots, defs), value,
                   ChainMap(override_kwargs, dump_python_kwargs(ad)))

\* self.__class__(self.schema, self.config, ...)
init_copy(self) ==
    NewAdapter(self.schema, self.config, self.parent_type, self.attname, self.allow_null,
               self.export_kwargs)

\* instance.__dict__.update(self.__dict__)
dict_update(target, source) ==
    [a \in DOMAIN target |-> IF a \in DOMAIN source THEN source[a] ELSE target[a]]

\* fault: a copy that shares the source's __dict__
copy_sharing_dict(insts, ds, src, dst) ==
    [instances |-> [insts EXCEPT ![dst] = insts[src]], dicts |-> ds]

\* BaseSchemaAdapter.__copy__: a new instance with its own __dict__, filled by
\* __init__ and then updated from the source's __dict__
copy(insts, ds, src, dst) ==
    [instances |-> [insts EXCEPT ![dst] = dst],
     dicts |-> [ds EXCEPT ![dst] = dict_update(init_copy(ds[insts[src]]), ds[insts[src]])]]

(***************************************************************************)
(* Actions: one per call on an adapter, and the changes of the owners'     *)
(* module that happen around them.                                         *)
(***************************************************************************)
SetDict(i, ad) == dicts' = [dicts EXCEPT ![instances[i]] = ad]

Bind(i, parent_type, attname) ==
    /\ Exists(i)
    /\ SetDict(i, bind(Self(i), parent_type, attname).ad)
    /\ ret' = Ret("bind", i, NoValue, bind(Self(i), parent_type, attname).out, NoValue,
                  Self(i).prepared_schema)
    /\ UNCHANGED <<instances, annotations, defined, threads, elsewhere>>

PreparedSchema(i) ==
    /\ Exists(i)
    /\ SetDict(i, get_prepared_schema(Self(i), annotations, defined).ad)
    /\ ret' = Ret("prepared_schema", i, NoValue,
                  get_prepared_schema(Self(i), annotations, defined).out, NoValue,
                  Self(i).prepared_schema)
    /\ UNCHANGED <<instances, annotations, defined, threads, elsewhere>>

ValidateSchema(i) ==
    /\ Exists(i)
    /\ SetDict(i, validate_schema(Self(i), annotations, defined).ad)
    /\ ret' = Ret("validate_schema", i, NoValue,
                  validate_schema(Self(i), annotations, defined).out, NoValue, Missing)
    /\ UNCHANGED <<instances, annotations, defined, threads, elsewhere>>

\* what a call was given and what it handed to the validator or serializer
Handed(r, given, passed) == [r EXCEPT !.given = given, !.passed = passed]

\* adapter.validate_python(value, strict=strict, from_attributes=from_attributes)
ValidatePythonWith(i, value, strict, from_attributes) ==
    /\ Exists(i)
    /\ SetDict(i, validate_python(Self(i), value, strict, from_attributes,
                                  annotations, defined).ad)
    /\ ret' = Handed(Ret("validate_python", i, value,
                         validate_python(Self(i), value, strict, from_attributes,
                                         annotations, defined).out,
                         validate_python(Self(i), value, strict, from_attributes,
                                         annotations, defined).val,
                         Self(i).prepared_schema),
                     [key \in {"strict", "from_attributes"} |->
                         IF key = "strict" THEN strict ELSE from_attributes],
                     validate_python(Self(i), value, strict, from_attributes,
                                     annotations, defined).passed)
    /\ UNCHANGED <<instances, annotations, defined, threads, elsewhere>>

\* adapter.validate_python(value)
ValidatePython(i, value) ==
    /\ Exists(i)
    /\ SetDict(i, validate_python(Self(i), value, "None", "None", annotations, defined).ad)
    /\ ret' = Ret("validate_python", i, value,
                  validate_python(Self(i), value, "None", "None", annotations, defined).out,
                  validate_python(Self(i), value, "None", "None", annotations, defined).val,
                  Self(i).prepared_schema)
    /\ UNCHANGED <<instances, annotations, defined, threads, elsewhere>>

Copy(src, dst) ==
    /\ Exists(src)
    /\ ~Exists(dst)
    /\ instances' = copy(instances, dicts, src, dst).instances
    /\ dicts' = copy(instances, dicts, src, dst).dicts
    /\ ret' = Ret("copy", dst, NoValue, Returned, NoValue, Missing)
    /\ UNCHANGED <<annotations, defined, threads, elsewhere>>

\* the module goes on loading: a name the annotations refer to gets defined
DefineName(n) ==
    /\ n \notin defined
    /\ defined' = defined \cup {n}
    /\ ret' = Ret("define", 1, NoValue, Returned, NoValue, Missing)
    /\ UNCHANGED <<instances, dicts, annotations, threads, elsewhere>>

\* an owner's annotation is replaced, added or removed
SetAnnotation(o, schema) ==
    /\ annotations[o]["f"] # schema
    /\ annotations' = [annotations EXCEPT ![o]["f"] = schema]
    /\ ret' = Ret("annotate", 1, NoValue, Returned, NoValue, Missing)
    /\ UNCHANGED <<instances, dicts, defined, threads, elsewhere>>

Call(i) ==
    \/ \E p \in Owners \cup {NoOwner}, n \in AttNames \cup {NoAttname} : Bind(i, p, n)
    \/ PreparedSchema(i)
    \/ ValidateSchema(i)
    \/ \E v \in Values : ValidatePython(i, v)

Environment ==
    \/ \E n \in ModuleNames : DefineName(n)
    \/ \E o \in Owners, schema \in AnnotationChoices : SetAnnotation(o, schema)

\* one adapter, used from a single thread
Next == Call(1) \/ Environment

Spec == Init /\ [][Next]_vars

\* an adapter and its copy, each bound, resolved and used on its own; the
\* owners' annotations stay as the module declared them
InitCopy ==
    /\ Init
    /\ Self(1).config = "None"
    /\ Self(1).schema \in {NoneSchema, Str("Foo")}
    /\ Self(1).attname # "g"
    /\ annotations[1]["f"] = Cls("int")
    /\ annotations[2]["f"] = Str("Foo")

CallCopy(i) ==
    \/ \E p \in Owners \cup {NoOwner} : Bind(i, p, "f")
    \/ PreparedSchema(i)
    \/ ValidatePython(i, VNone)

NextCopy ==
    \/ \E i \in AdapterIds : CallCopy(i)
    \/ Copy(1, 2)
    \/ \E n \in ModuleNames : DefineName(n)

SpecCopy == InitCopy /\ [][NextCopy]_vars

(***************************************************************************)
(* One adapter shared by two threads.  bind() runs statement by statement  *)
(* (types.py 115-117, v2/types.py 53): a thread switch can fall between    *)
(* any two of them, and the reader runs there.                             *)
(***************************************************************************)
SetThread(t, state) == threads' = [threads EXCEPT ![t] = state]

\* adapter.bind(parent_type, attname) is entered
BindCall(parent_type, attname) ==
    /\ threads.binder.pc = "idle"
    /\ SetThread("binder", [pc |-> "set_parent_type",
                            parent_type |-> parent_type, attname |-> attname])
    /\ UNCHANGED <<instances, dicts, annotations, defined, ret, elsewhere>>

\* self.parent_type = parent_type
BindSetParentType ==
    /\ threads.binder.pc = "set_parent_type"
    /\ SetDict(1, [Self(1) EXCEPT !.parent_type = threads.binder.parent_type])
    /\ SetThread("binder", [threads.binder EXCEPT !.pc = "set_attname"])
    /\ UNCHANGED <<instances, annotations, defined, ret, elsewhere>>

\* self.attname = attname
BindSetAttname ==
    /\ threads.binder.pc = "set_attname"
    /\ SetDict(1, [Self(1) EXCEPT !.attname = threads.binder.attname])
    /\ SetThread("binder", [threads.binder EXCEPT !.pc = "pop_prepared_schema"])
    /\ UNCHANGED <<instances, annotations, defined, ret, elsewhere>>

\* self.__dict__.pop("prepared_schema", None)
BindPopPreparedSchema ==
    /\ threads.binder.pc = "pop_prepared_schema"
    /\ SetDict(1, [Self(1) EXCEPT !.prepared_schema = Missing])
    /\ SetThread("binder", [threads.binder EXCEPT !.pc = "pop_type_adapter"])
    /\ UNCHANGED <<instances, annotations, defined, ret, elsewhere>>

\* self.__dict__.pop("type_adapter", None); return self
BindPopTypeAdapter ==
    /\ threads.binder.pc = "pop_type_adapter"
    /\ SetDict(1, [Self(1) EXCEPT !.type_adapter = Missing])
    /\ SetThread("binder", [threads.binder EXCEPT !.pc = "idle"])
    /\ ret' = Ret("bind", 1, NoValue, Returned, NoValue, Missing)
    /\ UNCHANGED <<instances, annotations, defined, elsewhere>>

\* the reader, running between two statements of bind(), reads the adapter's
\* binding and its prepared_schema
ReadPreparedSchema ==
    /\ SetDict(1, get_prepared_schema(Self(1), annotations, defined).ad)
    /\ SetThread("reader", [parent_type |-> Self(1).parent_type,
                            attname |-> Self(1).attname,
                            schema |-> get_prepared_schema(Self(1), annotations, defined).out])
    /\ ret' = Ret("prepared_schema", 1, NoValue,
                  get_prepared_schema(Self(1), annotations, defined).out, NoValue,
                  Self(1).prepared_schema)
    /\ UNCHANGED <<instances, annotations, defined, elsewhere>>

\* the reader reads the adapter's binding and its type_adapter: the validator
ReadTypeAdapter ==
    /\ SetDict(1, get_type_adapter(Self(1), annotations, defined).ad)
    /\ SetThread("reader", [parent_type |-> Self(1).parent_type,
                            attname |-> Self(1).attname,
                            schema |-> get_type_adapter(Self(1), annotations, defined).out])
    /\ ret' = Ret("type_adapter", 1, NoValue,
                  get_type_adapter(Self(1), annotations, defined).out, NoValue,
                  Self(1).prepared_schema)
    /\ UNCHANGED <<instances, annotations, defined, elsewhere>>

\* an adapter that takes its schema from the owner's annotation
InitConc ==
    /\ Init
    /\ Self(1).schema = NoneSchema
    /\ Self(1).allow_null # "True"

NextConc ==
    \/ \E p \in Owners, n \in AttNames : BindCall(p, n)
    \/ BindSetParentType
    \/ BindSetAttname
    \/ BindPopPreparedSchema
    \/ BindPopTypeAdapter
    \/ ReadPreparedSchema
    \/ ReadTypeAdapter

SpecConc == InitConc /\ [][NextConc]_vars

\* the same two threads when no switch falls inside bind()
NextSerial ==
    \/ \E p \in Owners, n \in AttNames : Bind(1, p, n)
    \/ ReadPreparedSchema
    \/ ReadTypeAdapter

SpecSerial == InitConc /\ [][NextSerial]_vars

(***************************************************************************)
(* What the claims speak of, stated apart from the adapter's code.         *)
(***************************************************************************)
\* the owner's annotation under a name, Missing when there is none
AnnotationOf(parent, attname) ==
    IF parent \in Owners /\ attname \in AttNames THEN annotations[parent][attname] ELSE Missing

\* the declaration resolution starts from: the schema argument, else the
\* annotation of the bound attribute, else nothing
Declared(ad) ==
    IF ad.schema # NoneSchema THEN ad.schema
    ELSE IF ad.parent_type # NoOwner /\ ad.attname # NoAttname
    THEN AnnotationOf(ad.parent_type, ad.attname)
    ELSE Missing

\* the type object a declaration denotes once every name in it is defined
Denoted(decl) ==
    CASE decl = Str("Foo") -> Cls("Foo")
      [] decl = Alias("list", <<Ref("Foo")>>) -> Gen("list", <<Cls("Foo")>>)
      [] OTHER -> decl

RefersToFoo(decl) == decl \in {Str("Foo"), Alias("list", <<Ref("Foo")>>)}

\* the referenced name is in the owner's namespace
FooInNamespace(ad) == ad.parent_type # NoOwner /\ "Foo" \in defined

Resolvable(ad) ==
    /\ Declared(ad) # Missing
    /\ RefersToFoo(Declared(ad)) => FooInNamespace(ad)

IsResolutionError(out) ==
    IsExc(out) /\ out.name \in {"NameError", "ImproperlyConfiguredSchema"}

NoCaches(ad) == ad.prepared_schema = Missing /\ ad.type_adapter = Missing

\* C1: for an adapter whose schema is None, bind() leaves no prepared_schema
\* and no validator behind, and the access that follows a bind() yields the
\* type annotated on the newly bound owner attribute (or raises when there is
\* none); a value cached under the old binding is not returned.
C1_RebindInvalidates ==
    [][ /\ ret'.op = "bind" => NoCaches(Self(1)')
        /\ (ret.op = "bind" /\ Self(1).schema = NoneSchema
              /\ ret'.op \in {"prepared_schema", "validate_python"}) =>
             IF Resolvable(Self(1))
             THEN /\ Self(1)'.prepared_schema = Denoted(Declared(Self(1)))
                  /\ ret'.op = "prepared_schema" => ret'.out = Denoted(Declared(Self(1)))
                  /\ ret'.op = "validate_python" =>
                        Self(1)'.type_adapter.args[1] \in
                            {Denoted(Declared(Self(1))), Optional(Denoted(Declared(Self(1))))}
             ELSE IsResolutionError(ret'.out) /\ NoCaches(Self(1)')
      ]_vars

\* C1 witness: bind() to the second owner has just dropped a schema that was
\* resolved from the first owner's differing annotation
C1_Witness ==
    /\ ret.op = "bind"
    /\ Self(1).schema = NoneSchema
    /\ ret.found = Cls("int")
    /\ Self(1).parent_type = 2 /\ Self(1).attname = "f"
    /\ annotations[1]["f"] = Cls("int")
    /\ annotations[2]["f"] = Str("Foo")
    /\ NoCaches(Self(1))

\* C2: between two bind() calls, every access to prepared_schema after the
\* first successful one returns the value of the first, whatever happened to
\* the owner's annotations or namespace; no call but bind() changes or drops
\* the memoized value.
C2_Memoized ==
    [][ /\ (ret'.op = "prepared_schema" /\ Self(1).prepared_schema # Missing) =>
              /\ ret'.out = Self(1).prepared_schema
              /\ Self(1)'.prepared_schema = Self(1).prepared_schema
        /\ (ret'.op # "bind" /\ Self(1).prepared_schema # Missing) =>
              Self(1)'.prepared_schema = Self(1).prepared_schema
      ]_vars

\* C2 witness: an access returned the memoized type although the annotation
\* it came from has been removed since
C2_Witness ==
    /\ ret.op = "prepared_schema"
    /\ Self(1).schema = NoneSchema
    /\ ret.found = Cls("int")
    /\ ret.out = Cls("int")
    /\ Self(1).parent_type = 1 /\ Self(1).attname = "f"
    /\ annotations[1]["f"] = Missing

\* C3: a resolution that fails on a forward reference whose name is not yet
\* in the owner's namespace is not raised by bind() and leaves nothing cached;
\* once the name is defined, the next access, without a rebind, resolves to
\* the referenced type, and validation succeeds.
C3_DeferredForwardRef ==
    [][ /\ (IsExc(ret'.out) /\ ret'.out.name = "NameError") =>
              /\ ret'.op # "bind"
              /\ NoCaches(Self(1)')
        /\ (ret.op = "define" /\ Self(1).prepared_schema = Missing
              /\ RefersToFoo(Declared(Self(1))) /\ Self(1).parent_type # NoOwner) =>
              /\ ret'.op = "prepared_schema" => ret'.out = Denoted(Declared(Self(1)))
              /\ (ret'.op = "validate_python" /\ ret'.arg = VDict
                    /\ Declared(Self(1)) = Str("Foo")) =>
                    ret'.out = Returned /\ ret'.val = VFoo
              /\ (ret'.op = "validate_python" /\ ret'.arg = VList(<<VDict>>)
                    /\ Declared(Self(1)) # Str("Foo")) =>
                    ret'.out = Returned /\ ret'.val = VList(<<VFoo>>)
      ]_vars

\* C3 witness: the adapter's previous call failed on the undefined name; with
\* no bind() in between this one resolved "Foo" and validated a value as a Foo
C3_Witness ==
    /\ ret.op = "validate_python"
    /\ ret.prev = "NameError"
    /\ ret.arg = VDict /\ ret.val = VFoo
    /\ ret.found = Missing
    /\ Self(1).schema = Str("Foo")
    /\ Self(1).prepared_schema = Cls("Foo")
    /\ "Foo" \in defined

ResolvingOps == {"prepared_schema", "validate_schema", "validate_python"}

C5_AnnotationOrError ==
    (ret.op = "prepared_schema" /\ ret.found = Missing /\ Self(1).schema = NoneSchema) =>
        /\ ret.out # NoneSchema
        /\ IF ~(Self(1).parent_type # NoOwner /\ Self(1).attname # NoAttname)
           THEN ret.out = Exc("ImproperlyConfiguredSchema",
                              <<"The adapter is accessed before it was bound",
                                NoOwner, NoAttname>>, "")
           ELSE IF AnnotationOf(Self(1).parent_type, Self(1).attname) = Missing
           THEN ret.out = Exc("ImproperlyConfiguredSchema",
                              <<"Annotation is not provided for",
                                Self(1).parent_type, Self(1).attname>>, "")
           ELSE IF IsExc(ret.out)
           THEN ret.out.name = "NameError" /\ ~FooInNamespace(Self(1))
           ELSE ret.out = Denoted(AnnotationOf(Self(1).parent_type, Self(1).attname))

\* C5 witness: a bound adapter without schema raised for the missing annotation
C5_Witness ==
    /\ ret.op = "prepared_schema"
    /\ Self(1).schema = NoneSchema
    /\ Self(1).parent_type = 2 /\ Self(1).attname = "g"
    /\ ret.out = Exc("ImproperlyConfiguredSchema",
                     <<"Annotation is not provided for", 2, "g">>, "")

\* C6: validate_schema() returns None exactly when resolution succeeds; every
\* failure, a NameError of a forward reference included, comes out as
\* ImproperlyConfiguredSchema, the wrapped exception being its cause.
C6_ValidateSchemaWraps ==
    ret.op = "validate_schema" =>
        /\ Resolvable(Self(1)) <=> ret.out = Returned
        /\ ~Resolvable(Self(1)) =>
              /\ IsExc(ret.out) /\ ret.out.name = "ImproperlyConfiguredSchema"
              /\ (Declared(Self(1)) # Missing) =>
                    /\ ret.out.cause = "NameError"
                    /\ ret.out.msg = <<"name is not defined", NoOwner, "Foo">>
              /\ (Declared(Self(1)) = Missing) => ret.out.cause = ""

\* C6 witness: the NameError of typing.List["Foo"] came out wrapped
C6_Witness ==
    /\ ret.op = "validate_schema"
    /\ Self(1).schema = Alias("list", <<Ref("Foo")>>)
    /\ ret.out = Exc("ImproperlyConfiguredSchema",
                     <<"name is not defined", NoOwner, "Foo">>, "NameError")

\* a schema that accepts None as it stands, and the nullable wrapping of one
AdmitsNone(schema) ==
    \/ schema = NoneT
    \/ /\ schema.k = "alias" /\ schema.name = "Union"
       /\ \E i \in 1..Len(schema.args) : schema.args[i] = NoneT

Nullable(schema) ==
    IF AdmitsNone(schema) THEN schema
    ELSE IF schema.k = "alias" /\ schema.name = "Union"
    THEN Alias("Union", schema.args \o <<NoneT>>)
    ELSE Alias("Union", <<schema, NoneT>>)

C10_NoneIffAllowNull ==
    (ret.op = "validate_python" /\ ret.arg = VNone) =>
        ((ret.out = Returned /\ ret.val = VNone) <=> Self(1).allow_null = "True")

\* C10 amended: for an adapter whose schema resolves, validate_python(None)
\* succeeds, returning None, if and only if allow_null is true or the resolved
\* schema itself admits None (as Optional[X] does); when the schema does not
\* resolve the call raises the resolution error whatever allow_null is.
C10_NoneIffNullable ==
    (ret.op = "validate_python" /\ ret.arg = VNone /\ ret.found = Missing) =>
        IF Resolvable(Self(1))
        THEN /\ (ret.out = Returned /\ ret.val = VNone) <=>
                   (Self(1).allow_null = "True" \/ AdmitsNone(Denoted(Declared(Self(1)))))
             /\ ret.out # Returned =>
                   (ret.out.name = "ValidationError" /\ ret.val = NoValue)
        ELSE IsResolutionError(ret.out)

\* C10 witness: None was accepted under Optional[int] although allow_null is
\* false
C10_Witness ==
    /\ ret.op = "validate_python"
    /\ ret.arg = VNone /\ ret.out = Returned /\ ret.val = VNone
    /\ Self(1).allow_null = "False"
    /\ Self(1).schema = Alias("Union", <<Cls("int"), NoneT>>)

\* the adapter another adapter's call must leave alone
Other(i) == IF i = 1 THEN 2 ELSE 1

\* C8: once the copy exists, a bind(), a resolution or a validation on the
\* original or on the copy leaves the other's parent_type, attname, cached
\* prepared_schema and cached validator as they were; the copy starts from the
\* original's binding and caches and owns its __dict__.
C8_CopyIndependent ==
    [][ /\ \A i \in AdapterIds :
              (ret'.op \in {"bind", "prepared_schema", "validate_python"}
                 /\ ret'.ad = i /\ Exists(1) /\ Exists(2)) =>
                 /\ Self(Other(i))'.parent_type = Self(Other(i)).parent_type
                 /\ Self(Other(i))'.attname = Self(Other(i)).attname
                 /\ Self(Other(i))'.prepared_schema = Self(Other(i)).prepared_schema
                 /\ Self(Other(i))'.type_adapter = Self(Other(i)).type_adapter
        /\ (ret'.op = "copy" /\ ~Exists(2)) =>
              /\ Self(2)' = Self(1)
              /\ Self(1)' = Self(1)
              /\ instances'[2] # instances'[1]
      ]_vars

\* C8 witness: the copy, made with the original's cached schema, was rebound
\* to the other owner and resolved anew; the original kept binding and cache
C8_Witness ==
    /\ Exists(2)
    /\ ret.op = "prepared_schema" /\ ret.ad = 2
    /\ Self(1).schema = NoneSchema
    /\ Self(1).parent_type = 1 /\ Self(1).prepared_schema = Cls("int")
    /\ Self(2).parent_type = 2 /\ Self(2).prepared_schema = Cls("Foo")

\* the type a reader's schema or validator stands for
SchemaSeen(seen) == IF seen.k = "TypeAdapter" THEN seen.args[1] ELSE seen

\* C7: whatever the interleaving of bind() with a reader, the schema (or
\* validator) the reader gets belongs to the binding it has read: it is the
\* type annotated on the owner attribute the reader saw the adapter bound to.
C7_ReaderSeesConsistentBinding ==
    (/\ threads.reader.schema # Missing
     /\ ~IsExc(threads.reader.schema)) =>
        SchemaSeen(threads.reader.schema) =
            Denoted(AnnotationOf(threads.reader.parent_type, threads.reader.attname))

\* keyword arguments a field is declared with
OptionKeys == {"strict", "by_alias", "exclude", "indent", "on_delete"}
OptionValues == {"True", "False"}
Mappings == UNION {[keys -> OptionValues] : keys \in SUBSET OptionKeys}

\* no adapter is in use
QuietAdapters ==
    /\ instances = [i \in AdapterIds |-> IF i = 1 THEN 1 ELSE NoInstance]
    /\ dicts = [i \in AdapterIds |-> EmptyDict]
    /\ annotations = [o \in Owners |-> [a \in AttNames |-> Missing]]
    /\ defined = {}
    /\ threads = IdleThreads
    /\ fields = NoFields
    /\ objects = NoObjects

InitKwargs ==
    /\ QuietAdapters
    /\ kwargs \in Mappings
    /\ ret = [op |-> "init", ad |-> NoInstance, arg |-> EmptyMapping, out |-> EmptyMapping,
              val |-> NoValue, found |-> Missing, prev |-> "", passed |-> EmptyMapping,
            given |-> EmptyMapping]

ExtractExportKwargs ==
    /\ kwargs' = extract_export_kwargs(kwargs).kwargs
    /\ ret' = [op |-> "extract_export_kwargs", ad |-> NoInstance, arg |-> kwargs,
               out |-> extract_export_kwargs(kwargs).out,
               val |-> NoValue, found |-> Missing, prev |-> "", passed |-> EmptyMapping,
            given |-> EmptyMapping]
    /\ UNCHANGED <<instances, dicts, annotations, defined, threads, fields, objects>>

\* the caller puts one more keyword argument into the dict
SetOption(key, value) ==
    /\ key \notin DOMAIN kwargs
    /\ kwargs' = [k \in (DOMAIN kwargs) \cup {key} |-> IF k = key THEN value ELSE kwargs[k]]
    /\ ret' = [op |-> "set_option", ad |-> NoInstance, arg |-> kwargs, out |-> EmptyMapping,
               val |-> NoValue, found |-> Missing, prev |-> "", passed |-> EmptyMapping,
            given |-> EmptyMapping]
    /\ UNCHANGED <<instances, dicts, annotations, defined, threads, fields, objects>>

NextKwargs ==
    \/ ExtractExportKwargs
    \/ \E key \in OptionKeys, value \in OptionValues : SetOption(key, value)

SpecKwargs == InitKwargs /\ [][NextKwargs]_vars

\* C11 as stated: the call returns exactly the entries of options under the
\* recognized export keys, removes exactly those keys, and leaves every other
\* entry in place with its value.
C11_ExactPartition ==
    ret.op = "extract_export_kwargs" =>
        /\ DOMAIN ret.out = (DOMAIN ret.arg) \cap ExportKeys
        /\ \A key \in DOMAIN ret.out : ret.out[key] = ret.arg[key]
        /\ DOMAIN kwargs = (DOMAIN ret.arg) \ ExportKeys
        /\ \A key \in DOMAIN kwargs : kwargs[key] = ret.arg[key]

\* C11 amended: the call returns exactly the entries of options under the
\* recognized export keys and removes those keys; it also removes the
\* deprecated v1 keys (allow_nan, indent, separators, skipkeys, sort_keys),
\* which it does not return; every entry under any other key stays in place
\* with its value.
C11_PartitionButDeprecated ==
    ret.op = "extract_export_kwargs" =>
        /\ DOMAIN ret.out = (DOMAIN ret.arg) \cap ExportKeys
        /\ \A key \in DOMAIN ret.out : ret.out[key] = ret.arg[key]
        /\ DOMAIN kwargs = (DOMAIN ret.arg) \ (ExportKeys \cup DeprecatedKeys)
        /\ \A key \in DOMAIN kwargs : kwargs[key] = ret.arg[key]

\* C11 witness: strict was returned, on_delete stayed, indent went unreturned
C11_Witness ==
    /\ ret.op = "extract_export_kwargs"
    /\ {"strict", "indent", "on_delete"} \subseteq DOMAIN ret.arg
    /\ DOMAIN ret.out = {"strict"} /\ ret.out["strict"] = ret.arg["strict"]
    /\ DOMAIN kwargs = {"on_delete"} /\ kwargs["on_delete"] = ret.arg["on_delete"]

(***************************************************************************)
(* One adapter with stored export kwargs, validating and dumping with and  *)
(* without call-site overrides.                                            *)
(***************************************************************************)
StoredKeys == {"strict", "from_attributes", "by_alias"}
StoredKwargs == UNION {[keys -> OptionValues] : keys \in SUBSET StoredKeys}
OverrideKwargs == UNION {[keys -> OptionValues] : keys \in SUBSET {"strict", "by_alias"}}
Overrides == {"None", "True", "False"}

InitExport ==
    /\ instances = [i \in AdapterIds |-> IF i = 1 THEN 1 ELSE NoInstance]
    /\ \E schema \in {Cls("int"), Cls("Foo")}, export_kwargs \in StoredKwargs :
          dicts = [i \in AdapterIds |->
                     IF i = 1
                     THEN NewAdapter(schema, "None", NoOwner, NoAttname, "None", export_kwargs)
                     ELSE EmptyDict]
    /\ annotations = [o \in Owners |-> [a \in AttNames |-> Missing]]
    /\ defined = ModuleNames
    /\ threads = IdleThreads
    /\ kwargs = EmptyMapping
    /\ fields = NoFields
    /\ objects = NoObjects
    /\ ret = [op |-> "init", ad |-> 1, arg |-> NoValue, out |-> Returned, val |-> NoValue,
              found |-> Missing, prev |-> "", passed |-> EmptyMapping,
              given |-> EmptyMapping]

\* adapter.validate_json(value, strict=strict)
ValidateJson(i, value, strict) ==
    /\ Exists(i)
    /\ SetDict(i, validate_json(Self(i), value, strict, annotations, defined).ad)
    /\ ret' = Handed(Ret("validate_json", i, value,
                         validate_json(Self(i), value, strict, annotations, defined).out,
                         validate_json(Self(i), value, strict, annotations, defined).val,
                         Self(i).prepared_schema),
                     [key \in {"strict"} |-> strict],
                     validate_json(Self(i), value, strict, annotations, defined).passed)
    /\ UNCHANGED <<instances, annotations, defined, threads, elsewhere>>

\* adapter.dump_python(value, **override_kwargs)
DumpPython(i, value, override_kwargs) ==
    /\ Exists(i)
    /\ SetDict(i, dump_python(Self(i), value, override_kwargs, annotations, defined).ad)
    /\ ret' = Handed(Ret("dump_python", i, value,
                         dump_python(Self(i), value, override_kwargs, annotations, defined).out,
                         dump_python(Self(i), value, override_kwargs, annotations, defined).val,
                         Self(i).prepared_schema),
                     override_kwargs,
                     dump_python(Self(i), value, override_kwargs, annotations, defined).passed)
    /\ UNCHANGED <<instances, annotations, defined, threads, elsewhere>>

\* adapter.dump_json(value, **override_kwargs)
DumpJson(i, value, override_kwargs) ==
    /\ Exists(i)
    /\ SetDict(i, dump_json(Self(i), value, override_kwargs, annotations, defined).ad)
    /\ ret' = Handed(Ret("dump_json", i, value,
                         dump_json(Self(i), value, override_kwargs, annotations, defined).out,
                         dump_json(Self(i), value, override_kwargs, annotations, defined).val,
                         Self(i).prepared_schema),
                     override_kwargs,
                     dump_json(Self(i), value, override_kwargs, annotations, defined).passed)
    /\ UNCHANGED <<instances, annotations, defined, threads, elsewhere>>

NextExport ==
    \/ \E value \in {VInt, VNumStr, VObj}, strict \in Overrides, from_attributes \in Overrides :
          ValidatePythonWith(1, value, strict, from_attributes)
    \/ \E value \in {Json(VInt), Json(VNumStr), VInt}, strict \in Overrides :
          ValidateJson(1, value, strict)
    \/ \E value \in {VInt, VFoo}, override_kwargs \in OverrideKwargs :
          DumpPython(1, value, override_kwargs)
    \/ \E value \in {VInt, VFoo}, override_kwargs \in OverrideKwargs :
          DumpJson(1, value, override_kwargs)

SpecExport == InitExport /\ [][NextExport]_vars

\* the option a validate call must go by: the argument when one is given,
\* else the stored export kwarg, else None
EffectiveOption(stored, given, key) ==
    IF given[key] # "None" THEN given[key]
    ELSE IF key \in DOMAIN stored THEN stored[key]
    ELSE "None"

\* C12: a strict or from_attributes argument of validate_python, and a strict
\* argument of validate_json, decides that call whatever is stored; a call
\* without the argument goes by the stored export kwarg; the validator gets
\* exactly that option and accepts or rejects accordingly; no validate call
\* changes the stored export kwargs.
C12_OverrideForOneCall ==
    [][ /\ Self(1)'.export_kwargs = Self(1).export_kwargs
        /\ ret'.op = "validate_python" =>
              /\ ret'.passed["strict"] =
                    EffectiveOption(Self(1).export_kwargs, ret'.given, "strict")
              /\ ret'.passed["from_attributes"] =
                    EffectiveOption(Self(1).export_kwargs, ret'.given, "from_attributes")
              /\ (Self(1).schema = Cls("int") /\ ret'.arg = VNumStr) =>
                    (ret'.out = Returned <=>
                        EffectiveOption(Self(1).export_kwargs, ret'.given, "strict") # "True")
              /\ (Self(1).schema = Cls("Foo") /\ ret'.arg = VObj) =>
                    (ret'.out = Returned <=>
                        EffectiveOption(Self(1).export_kwargs, ret'.given,
                                        "from_attributes") = "True")
        /\ ret'.op = "validate_json" =>
              /\ DOMAIN ret'.passed = {"strict"}
              /\ ret'.passed["strict"] =
                    EffectiveOption(Self(1).export_kwargs, ret'.given, "strict")
              /\ (Self(1).schema = Cls("int") /\ ret'.arg = Json(VNumStr)) =>
                    (ret'.out = Returned <=>
                        EffectiveOption(Self(1).export_kwargs, ret'.given, "strict") # "True")
      ]_vars

\* C12 witness: on an adapter storing strict=False a call with strict=True
\* rejected "1", and the stored value is still False
C12_Witness ==
    /\ ret.op = "validate_python"
    /\ ret.given["strict"] = "True"
    /\ "strict" \in DOMAIN Self(1).export_kwargs /\ Self(1).export_kwargs["strict"] = "False"
    /\ ret.arg = VNumStr
    /\ IsExc(ret.out) /\ ret.out.name = "ValidationError"

\* C13: the keyword arguments dump_python / dump_json hand to the serializer
\* are the stored export kwargs overlaid by the call's overrides, the override
\* winning on a shared key, and strict and from_attributes are never among
\* them (mode, which dump_python defaults to "json", is left aside).
C13_DumpKwargsOverlay ==
    ret.op \in {"dump_python", "dump_json"} =>
        /\ \A key \in ExportKeys \ {"mode", "strict", "from_attributes"} :
              key \in DOMAIN ret.passed <=>
                  (key \in DOMAIN ret.given \/ key \in DOMAIN Self(1).export_kwargs)
        /\ \A key \in (DOMAIN ret.passed) \ {"mode"} :
              ret.passed[key] = IF key \in DOMAIN ret.given THEN ret.given[key]
                                ELSE Self(1).export_kwargs[key]
        /\ "strict" \notin DOMAIN ret.passed
        /\ "from_attributes" \notin DOMAIN ret.passed

(***************************************************************************)
(* BaseSchemaAdapter.__eq__ (types.py): two adapters of one class, each    *)
(* with its own __dict__, compared in either order while they are bound    *)
(* and the module loads.                                                   *)
(***************************************************************************)
BoolValue(b) == Mk("bool", IF b THEN "True" ELSE "False", <<>>)

\* list == list: the same length and equal items
ListEq(s, t) == Len(s) = Len(t) /\ \A n \in 1..Len(s) : s[n] = t[n]

\* fault: the attribute name is left out of the comparison
fields_without_attname(ad) == <<ad.export_kwargs>>

\* self_fields = [self.attname, self.export_kwargs]
compared_fields(ad) == <<ad.attname, ad.export_kwargs>>

\* (self.schema, self.config, self.allow_null)
raw_fields(ad) == <<ad.schema, ad.config, ad.allow_null>>

\* except ImproperlyConfiguredSchema: the lists as they are by then, extended
\* with the raw fields unless both adapters are bound
eq_fallback(a, b, self_fields, other_fields) ==
    IF is_bound(a) /\ is_bound(b)
    THEN FALSE
    ELSE ListEq(self_fields \o raw_fields(a), other_fields \o raw_fields(b))

\* other_fields.append(other.prepared_schema), after self's was appended
eq_other(a, b, ga, gb) ==
    IF ~IsExc(gb.out)
    THEN [a |-> ga.ad, b |-> gb.ad,
          out |-> BoolValue(ListEq(compared_fields(a) \o <<ga.out>>,
                                   compared_fields(b) \o <<gb.out>>))]
    ELSE IF gb.out.name = "ImproperlyConfiguredSchema"
    THEN [a |-> ga.ad, b |-> gb.ad,
          out |-> BoolValue(eq_fallback(a, b, compared_fields(a) \o <<ga.out>>,
                                        compared_fields(b)))]
    ELSE [a |-> ga.ad, b |-> gb.ad, out |-> gb.out]

\* self_fields.append(self.prepared_schema)
eq_self(a, b, ga, annots, defs) ==
    IF ~IsExc(ga.out)
    THEN eq_other(a, b, ga, get_prepared_schema(b, annots, defs))
    ELSE IF ga.out.name = "ImproperlyConfiguredSchema"
    THEN [a |-> a, b |-> b,
          out |-> BoolValue(eq_fallback(a, b, compared_fields(a), compared_fields(b)))]
    ELSE [a |-> a, b |-> b, out |-> ga.out]

\* a.__eq__(b) for b of a's class: both __dict__s afterwards and the result
eq(a, b, annots, defs) == eq_self(a, b, get_prepared_schema(a, annots, defs), annots, defs)

\* adapters[i] == adapters[Other(i)]
Eq(i) ==
    /\ Exists(i) /\ Exists(Other(i))
    /\ dicts' = [dicts EXCEPT
                   ![instances[i]] = eq(Self(i), Self(Other(i)), annotations, defined).a,
                   ![instances[Other(i)]] = eq(Self(i), Self(Other(i)), annotations, defined).b]
    /\ ret' = Ret("eq", i, NoValue, eq(Self(i), Self(Other(i)), annotations, defined).out,
                  NoValue, Self(i).prepared_schema)
    /\ UNCHANGED <<instances, annotations, defined, threads, elsewhere>>

EqSchemas == {NoneSchema, Cls("int"), Str("Foo")}
EqKwargs == {EmptyMapping, [key \in {"strict"} |-> "True"]}

\* two fields' adapters as PydanticSchemaField.__init__ makes them: no owner
\* yet, the attribute name the field has by then
InitEq ==
    /\ instances = [i \in AdapterIds |-> i]
    /\ \E schemas \in [AdapterIds -> EqSchemas], attnames \in [AdapterIds -> {"f", NoAttname}],
          kws \in [AdapterIds -> EqKwargs], config \in Configs, allow_null \in {"None", "True"} :
          dicts = [i \in AdapterIds |->
                     NewAdapter(schemas[i], IF i = 1 THEN "None" ELSE config, NoOwner,
                                attnames[i], IF i = 1 THEN "None" ELSE allow_null, kws[i])]
    /\ annotations = [o \in Owners |-> [a \in AttNames |->
                         IF a = "f" /\ o = 1 THEN Cls("int") ELSE Missing]]
    /\ defined = {}
    /\ threads = IdleThreads
    /\ kwargs = EmptyMapping
    /\ fields = NoFields
    /\ objects = NoObjects
    /\ ret = [op |-> "init", ad |-> 1, arg |-> NoValue, out |-> Returned, val |-> NoValue,
              found |-> Missing, prev |-> "", passed |-> EmptyMapping,
              given |-> EmptyMapping]

NextEq ==
    \/ \E i \in AdapterIds : Eq(i)
    \/ \E i \in AdapterIds, p \in Owners \cup {NoOwner}, n \in {"f", NoAttname} : Bind(i, p, n)
    \/ \E n \in ModuleNames : DefineName(n)

SpecEq == InitEq /\ [][NextEq]_vars

BothResolved == Self(1).prepared_schema.k # "missing" /\ Self(2).prepared_schema.k # "missing"

\* C14: when a == b has resolved the prepared schema of both adapters, it is
\* True exactly when their attname, their export kwargs and their prepared
\* schemas are equal (whatever their owners, configs and null policies)
C14_EqualIffPrepared ==
    (ret.op = "eq" /\ ~IsExc(ret.out) /\ BothResolved)
        => (ret.out = BoolValue(TRUE)
              <=> /\ Self(1).attname = Self(2).attname
                  /\ Self(1).export_kwargs = Self(2).export_kwargs
                  /\ Self(1).prepared_schema = Self(2).prepared_schema)

\* C14 witness: two adapters bound to different owners, set up with different
\* raw schemas, compare equal
C14_Witness ==
    /\ ret.op = "eq" /\ ret.out = BoolValue(TRUE) /\ BothResolved
    /\ Self(1).attname = "f"
    /\ Self(1).parent_type # Self(2).parent_type
    /\ Self(1).schema # Self(2).schema

\* C15: when a == b met an unresolvable prepared schema, the result is False
\* for two bound adapters and otherwise the equality of attname, export
\* kwargs, raw schema, config and allow_null alone
C15_FallbackOnRawFields ==
    (ret.op = "eq" /\ ~IsExc(ret.out) /\ ~BothResolved)
        => (ret.out = BoolValue(
               /\ ~(is_bound(Self(1)) /\ is_bound(Self(2)))
               /\ Self(1).attname = Self(2).attname
               /\ Self(1).export_kwargs = Self(2).export_kwargs
               /\ Self(1).schema = Self(2).schema
               /\ Self(1).config = Self(2).config
               /\ Self(1).allow_null = Self(2).allow_null))

(***************************************************************************)
(* GenericContainer.wrap / unwrap over schema types (compat/django.py),    *)
(* as tests/test_migration_serializers.py drives them: a raw type is       *)
(* wrapped, the container unwrapped, the result wrapped again.             *)
(***************************************************************************)
Lit(v) == Mk("lit", v, <<>>)

\* str, list, ForwardRef("str"), SampleDataclass ...
PlainTypes == {Cls("int"), Cls("str"), Cls("list"), Ref("str"), Cls("SampleDataclass")}

\* annotated_types.Gt(gt=0)
Metadata == {DataclassInstance("Gt", <<Lit("0")>>)}

\* list[str], typing.List[str], typing.List, typing.Union[int, str],
\* typing.Literal["foo"], Annotated[int, Gt(gt=0)]
Parameterized ==
    {Gen("list", <<a>>) : a \in PlainTypes}
    \cup {Alias("list", <<a>>) : a \in PlainTypes}
    \cup {Alias("list", <<>>)}
    \cup {Alias("Union", <<p[1], p[2]>>) :
             p \in {x \in PlainTypes \X PlainTypes : x[1] # x[2]}}
    \cup {Alias("Literal", <<Lit("foo")>>), Alias("Literal", <<Lit("foo"), Lit("bar")>>)}
    \cup {Alias("Annotated", <<a, m>>) : a \in PlainTypes, m \in Metadata}

IsUnion(t) == t.k = "alias" /\ t.name = "Union"
IsAnnotated(t) == t.k = "alias" /\ t.name = "Annotated"

\* list[typing.Union[int, bool]], typing.Union[typing.Literal["foo"], list[str]],
\* tuple[list[..], typing.Union[..]], Annotated[list[int], Gt(gt=0)]: the
\* forms typing itself keeps (a union holds no union, Annotated no Annotated)
Nested ==
    {Gen("list", <<t>>) : t \in Parameterized}
    \cup {Alias("Union", <<t, Cls("int")>>) : t \in {x \in Parameterized : ~IsUnion(x)}}
    \cup {Gen("tuple", <<t, Alias("Union", <<Cls("str"), Alias("Literal", <<Lit("foo")>>)>>)>>) :
             t \in {Gen("list", <<Alias("Literal", <<Lit("1")>>)>>),
                    Alias("list", <<Alias("Literal", <<Lit("1")>>)>>)}}
    \cup {Alias("Annotated", <<t, m>>) :
             t \in {x \in Parameterized : ~IsAnnotated(x)}, m \in Metadata}

SchemaTypes == PlainTypes \cup Parameterized \cup Nested

InitWrap ==
    /\ instances = [i \in AdapterIds |-> NoInstance]
    /\ dicts = [i \in AdapterIds |-> EmptyDict]
    /\ annotations = [o \in Owners |-> [a \in AttNames |-> Missing]]
    /\ defined = {}
    /\ threads = IdleThreads
    /\ kwargs = EmptyMapping
    /\ fields = NoFields
    /\ objects = NoObjects
    /\ \E raw_type \in SchemaTypes :
          ret = [op |-> "raw_type", ad |-> NoInstance, arg |-> NoValue, out |-> raw_type,
                 val |-> NoValue, found |-> raw_type, prev |-> "",
                 passed |-> EmptyMapping, given |-> EmptyMapping]

\* wrapped_type = GenericContainer.wrap(raw_type), of the raw type or of what
\* the first round trip gave (kept in val)
Wrap ==
    /\ \/ ret.op = "raw_type"
       \/ ret.op = "unwrap" /\ ret.prev = ""
    /\ ret' = [ret EXCEPT !.op = "wrap", !.out = wrap(ret.out),
                          !.val = IF ret.op = "unwrap" THEN ret.out ELSE NoValue,
                          !.prev = IF ret.op = "unwrap" THEN "unwrap" ELSE ""]
    /\ UNCHANGED <<instances, dicts, annotations, defined, threads, elsewhere>>

\* GenericContainer.unwrap(wrapped_type)
Unwrap ==
    /\ ret.op = "wrap"
    /\ ret' = [ret EXCEPT !.op = "unwrap", !.out = unwrap(ret.out)]
    /\ UNCHANGED <<instances, dicts, annotations, defined, threads, elsewhere>>

(***************************************************************************)
(* The migration serializers (compat/django.py) and the evaluation of what *)
(* they write.  An expression is kept as its syntax tree: a constant, a    *)
(* dotted name, a tuple display or a call; the imports are module paths.   *)
(***************************************************************************)
Expr(e, module, name, args) == [e |-> e, module |-> module, name |-> name, args |-> args]
Serialized(expr, imports) == [expr |-> expr, imports |-> imports]

\* the module a class is defined in
ClassModule(n) ==
    IF n \in {"int", "str", "list", "tuple", "NoneType"} THEN "builtins"
    ELSE IF n = "Gt" THEN "annotated_types"
    ELSE "tests.test_migration_serializers"

\* django's TypeSerializer: the bare name of a builtin, otherwise the dotted
\* path and an import of the module
TypeSerializer(n) ==
    IF ClassModule(n) = "builtins"
    THEN Serialized(Expr("name", "", n, <<>>), {})
    ELSE Serialized(Expr("name", ClassModule(n), n, <<>>), {ClassModule(n)})

\* TypingSerializer for a value wrap() leaves alone: repr(value), prefixed
\* with the module when it does not start with it, and an import of the module
TypingSerializer(value) ==
    IF value.k = "ref"
    THEN Serialized(Expr("call", "typing", "ForwardRef", <<Expr("const", "", value.name, <<>>)>>),
                    {"typing"})
    ELSE Serialized(Expr("name", "typing", value.name, <<>>), {"typing"})

\* GenericContainer.origin is typing.Union, typing.Literal, Annotated or a class
OriginObject(name) ==
    IF name \in {"Union", "Literal", "Annotated"} THEN Mk("form", name, <<>>) ELSE Cls(name)

\* fault: the imports of a container's attributes are not collected
own_imports(tp, attrs) == tp.imports

\* imports.update(attr_imports) for every attribute
collected_imports(tp, attrs) ==
    tp.imports \cup UNION {attrs[n].imports : n \in 1..Len(attrs)}

\* fault: an empty tuple among the attributes is left out of the call
WithoutEmptyTuples(attrs) ==
    SelectSeq(attrs, LAMBDA a : ~(a.expr.e = "tuple" /\ a.expr.args = <<>>))

call_without_empty_tuples(tp, attrs) ==
    Serialized(Expr("call", tp.expr.module, tp.expr.name,
                    [n \in 1..Len(WithoutEmptyTuples(attrs)) |->
                        WithoutEmptyTuples(attrs)[n].expr]),
               collected_imports(tp, attrs))

\* f"{tp_repr}({attrs_repr})", imports
call_expression(tp, attrs) ==
    Serialized(Expr("call", tp.expr.module, tp.expr.name,
                    [n \in 1..Len(attrs) |-> attrs[n].expr]),
               collected_imports(tp, attrs))

\* django's tuple serializer: the items' expressions in a tuple display, the
\* union of their imports
TupleSerializer(items) ==
    Serialized(Expr("tuple", "", "", [n \in 1..Len(items) |-> items[n].expr]),
               UNION {items[n].imports : n \in 1..Len(items)})

\* serializer_factory(value).serialize(): BaseContainerSerializer for a
\* GenericContainer, DataclassContainerSerializer, TypingSerializer,
\* django's own serializers for classes and constants
RECURSIVE serialize(_)
serialize(value) ==
    IF value.k = "container"
    THEN call_expression(
             Serialized(Expr("name", "django_pydantic_field.compat.django",
                             "GenericContainer", <<>>),
                        {"django_pydantic_field.compat.django"}),
             <<serialize(OriginObject(value.name)),
               TupleSerializer([n \in 1..Len(value.args) |-> serialize(value.args[n])])>>)
    ELSE IF value.k = "dccontainer"
    THEN call_expression(TypeSerializer(value.name),
                         [n \in 1..Len(value.args) |-> serialize(value.args[n])])
    ELSE IF value.k \in {"ref", "form"} THEN TypingSerializer(value)
    ELSE IF value.k = "cls" THEN TypeSerializer(value.name)
    ELSE IF value.k \in {"alias", "gen"} THEN serialize(wrap(value))
    ELSE Serialized(Expr("const", "", value.name, <<>>), {})

\* the object a dotted name denotes once its module is imported; NameError
\* for a module the namespace does not hold
lookup(expr, ns) ==
    IF expr.module # "" /\ expr.module \notin ns
    THEN Exc("NameError", <<"name is not defined", NoOwner, expr.module>>, "")
    ELSE IF expr.module = "typing" THEN Mk("form", expr.name, <<>>)
    ELSE Cls(expr.name)

\* callee(*args) for the callables the expressions name
call(callee, args) ==
    IF IsExc(callee) THEN callee
    ELSE IF first_raised(args).k # "missing" THEN first_raised(args)
    ELSE IF callee.name = "GenericContainer" THEN Container(args[1].name, args[2].args)
    ELSE IF callee.name = "ForwardRef" THEN Ref(args[1].name)
    ELSE DataclassInstance(callee.name, args)

\* eval(expression, resolved_imports)
RECURSIVE eval(_, _)
eval(expr, ns) ==
    IF expr.e = "const" THEN Lit(expr.name)
    ELSE IF expr.e = "name" THEN lookup(expr, ns)
    ELSE IF expr.e = "tuple"
    THEN (IF first_raised([n \in 1..Len(expr.args) |-> eval(expr.args[n], ns)]).k # "missing"
          THEN first_raised([n \in 1..Len(expr.args) |-> eval(expr.args[n], ns)])
          ELSE Mk("tuple", "", [n \in 1..Len(expr.args) |-> eval(expr.args[n], ns)]))
    ELSE call(lookup(expr, ns), [n \in 1..Len(expr.args) |-> eval(expr.args[n], ns)])

\* left == right as the containers' __eq__ decide it: a GenericContainer
\* against a generic type wraps the type, a DataclassContainer against a
\* dataclass instance wraps the instance, containers compare slot by slot
RECURSIVE equals(_, _)
equals(left, right) ==
    IF IsExc(left) \/ IsExc(right) THEN FALSE
    ELSE IF left.k \in {"container", "dccontainer"} /\ right.k \in {"alias", "gen", "dcinst"}
    THEN equals(left, wrap(right))
    ELSE IF right.k \in {"container", "dccontainer"} /\ left.k \in {"alias", "gen", "dcinst"}
    THEN equals(wrap(left), right)
    ELSE IF left.k \in {"container", "dccontainer"} /\ right.k = left.k
    THEN /\ left.name = right.name
         /\ Len(left.args) = Len(right.args)
         /\ \A n \in 1..Len(left.args) : equals(left.args[n], right.args[n])
    ELSE left = right

\* expression, raw_imports = MigrationWriter.serialize(raw_type): the wrapped
\* type is kept in val, the imports in passed
Serialize ==
    /\ ret.op = "wrap" /\ ret.prev = ""
    /\ ret' = [ret EXCEPT !.op = "serialize", !.val = ret.out,
                          !.out = serialize(ret.out).expr,
                          !.passed = serialize(ret.out).imports]
    /\ UNCHANGED <<instances, dicts, annotations, defined, threads, elsewhere>>

\* exec("\n".join(raw_imports)); eval(expression, resolved_imports)
Eval ==
    /\ ret.op = "serialize"
    /\ ret' = [ret EXCEPT !.op = "eval", !.out = eval(ret.out, ret.passed)]
    /\ UNCHANGED <<instances, dicts, annotations, defined, threads, elsewhere>>

NextWrap == Wrap \/ Unwrap \/ Serialize \/ Eval

SpecWrap == InitWrap /\ [][NextWrap]_vars

\* a typing alias of a builtin collection somewhere in the type: typing.List,
\* typing.List[int]
RECURSIVE HasTypingAlias(_)
HasTypingAlias(t) ==
    \/ t.k = "alias" /\ t.name \notin {"Union", "Literal", "Annotated"}
    \/ t.k \in {"alias", "gen"} /\ \E n \in 1..Len(t.args) : HasTypingAlias(t.args[n])

NOT_PROVIDED == V("NOT_PROVIDED", <<>>)
\* default=dict, default=list: a callable returning the value
Callable(v) == V("callable", <<v>>)

NewField(schema, config, null, default, encoder, export_kwargs) ==
    [schema |-> base_unwrap(schema), config |-> config, null |-> null, default |-> default,
     encoder |-> encoder, export_kwargs |-> export_kwargs, name |-> NoAttname,
     model |-> NoOwner]

NoField == NewField(NoneSchema, "None", "False", NOT_PROVIDED, "None", EmptyMapping)

\* PydanticSchemaField.__init__(schema, config, **kwargs): the field and the
\* adapter it creates, unbound and without an attribute name
field_init(schema, config, kw) ==
    [field |-> NewField(schema, config,
                        IF "null" \in DOMAIN kw THEN kw["null"] ELSE "False",
                        IF "default" \in DOMAIN kw THEN kw["default"] ELSE NOT_PROVIDED,
                        IF "encoder" \in DOMAIN kw THEN kw["encoder"] ELSE "DjangoJSONEncoder",
                        extract_export_kwargs(kw).out),
     adapter |-> NewAdapter(schema, config, NoOwner, NoAttname,
                            IF "null" \in DOMAIN kw THEN kw["null"] ELSE "False",
                            extract_export_kwargs(kw).out)]

has_default(field) == field.default # NOT_PROVIDED

\* django's Field.get_default: the default, called when it is callable; None
\* for a field without one
default_value(field) ==
    IF field.default.vk = "callable" THEN field.default.items[1]
    ELSE IF has_default(field) THEN field.default
    ELSE VNone

\* PydanticSchemaField.get_default
get_default(field, ad, annots, defs) ==
    IF has_default(field)
    THEN validate_python(ad, default_value(field), "None", "None", annots, defs)
    ELSE [ad |-> ad, out |-> Returned, val |-> VNone, passed |-> EmptyMapping]

IsValidationError(out) == IsExc(out) /\ out.name = "ValidationError"

\* the rest of _prepare_raw_value after validate_python: a validation error is
\* passed over and the raw value dumped, any other exception propagates
dump_validated(r, value, dump_kwargs, annots, defs) ==
    IF IsExc(r.out) /\ ~IsValidationError(r.out) THEN r
    ELSE dump_python(r.ad, IF IsExc(r.out) THEN value ELSE r.val,
                     ChainMap([key \in {"mode"} |-> "json"], dump_kwargs), annots, defs)

\* PydanticSchemaField._prepare_raw_value(value, **dump_kwargs)
prepare_raw_value(ad, value, dump_kwargs, annots, defs) ==
    dump_validated(validate_python(ad, value, "None", "None", annots, defs),
                   value, dump_kwargs, annots, defs)

\* django's Field.deconstruct / JSONField.deconstruct: the keyword arguments
\* that differ from their defaults
super_deconstruct(field) ==
    [key \in {"encoder"} \cup (IF field.null = "True" THEN {"null"} ELSE {})
                         \cup (IF has_default(field) THEN {"default"} ELSE {}) |->
        IF key = "encoder" THEN field.encoder
        ELSE IF key = "null" THEN field.null
        ELSE field.default]

\* include=None, exclude=None, round_trip=True
deconstruct_dump_kwargs ==
    [key \in {"include", "exclude", "round_trip"} |->
        IF key = "round_trip" THEN "True" ELSE "None"]

\* kwargs["default"] = self._prepare_raw_value(default, ...) for a default
\* that is given and not callable
deconstruct_default(field, ad, annots, defs) ==
    IF has_default(field) /\ field.default.vk # "callable"
    THEN prepare_raw_value(ad, field.default, deconstruct_dump_kwargs, annots, defs)
    ELSE [ad |-> ad, out |-> Returned, val |-> field.default, passed |-> EmptyMapping]

Deconstructed(ad, out, field, kw) ==
    [ad |-> ad, out |-> out, name |-> field.name,
     path |-> "django_pydantic_field.fields.PydanticSchemaField", args |-> <<>>,
     kwargs |-> kw]

\* kwargs.update(schema=prep_schema, config=self.config, **self.export_kwargs)
deconstruct_kwargs(field, dumped, prepared) ==
    ChainMap(field.export_kwargs,
             ChainMap([key \in {"schema", "config"} |->
                          IF key = "schema" THEN wrap(prepared) ELSE field.config],
                      ChainMap(IF has_default(field)
                               THEN [key \in {"default"} |-> dumped] ELSE EmptyMapping,
                               super_deconstruct(field))))

\* the rest of deconstruct, given what dumping the default and reading
\* adapter.prepared_schema did
deconstruct_schema(field, r, g) ==
    IF IsExc(r.out) THEN Deconstructed(r.ad, r.out, field, EmptyMapping)
    ELSE IF IsExc(g.out) THEN Deconstructed(g.ad, g.out, field, EmptyMapping)
    ELSE Deconstructed(g.ad, Returned, field, deconstruct_kwargs(field, r.val, g.out))

\* PydanticSchemaField.deconstruct
deconstruct(field, ad, annots, defs) ==
    deconstruct_schema(field, deconstruct_default(field, ad, annots, defs),
                       get_prepared_schema(deconstruct_default(field, ad, annots, defs).ad,
                                           annots, defs))

\* PydanticSchemaField(*args, **kwargs) from what deconstruct returned
reconstruct(d) ==
    field_init(d.kwargs["schema"], d.kwargs["config"],
               Restrict(d.kwargs, (DOMAIN d.kwargs) \ {"schema", "config"}))

\* ImproperlyConfiguredSchema and pydantic's ValidationError are ValueErrors
IsValueError(out) ==
    IsExc(out) /\ out.name \in {"ValidationError", "ImproperlyConfiguredSchema"}

\* fault: the validation error is raised on as it is
as_raised(exc) == exc

\* raise exceptions.ValidationError(str(exc), code="invalid") from exc
as_django_error(exc) == Exc("django.ValidationError", <<"invalid", NoOwner, NoAttname>>, exc.name)

\* the second try of to_python: except ValidationErrorsTuple
to_python_result(p) ==
    IF IsValidationError(p.out)
    THEN [ad |-> p.ad, out |-> as_django_error(p.out), val |-> NoValue]
    ELSE [ad |-> p.ad, out |-> p.out, val |-> p.val]

\* the first try of to_python: a ValueError from validate_json is passed over
\* and the value stays; any other exception propagates
to_python_parsed(j, value, annots, defs) ==
    IF IsExc(j.out) /\ ~IsValueError(j.out)
    THEN [ad |-> j.ad, out |-> j.out, val |-> NoValue]
    ELSE to_python_result(validate_python(j.ad, IF IsExc(j.out) THEN value ELSE j.val,
                                          "None", "None", annots, defs))

\* PydanticSchemaField.to_python
to_python(ad, value, annots, defs) ==
    to_python_parsed(validate_json(ad, value, "None", annots, defs), value, annots, defs)

\* SchemaAttribute.__set__ validates every value;
\* UninitializedSchemaAttribute.__set__, the descriptor of a field without a
\* default, stores None as it is
validates(field, value) == has_default(field) \/ value # VNone

\* fault: the value is put into obj.__dict__ before it is converted
set_attribute_storing_first(field, ad, stored, value, annots, defs) ==
    IF ~validates(field, value)
    THEN [ad |-> ad, out |-> Returned, val |-> value]
    ELSE IF IsExc(to_python(ad, value, annots, defs).out)
    THEN [ad |-> to_python(ad, value, annots, defs).ad,
          out |-> to_python(ad, value, annots, defs).out, val |-> value]
    ELSE to_python(ad, value, annots, defs)

\* descriptor.__set__(obj, value): what to_python did and the value now in
\* obj.__dict__ (stored: the value before)
set_attribute(field, ad, stored, value, annots, defs) ==
    IF ~validates(field, value)
    THEN [ad |-> ad, out |-> Returned, val |-> value]
    ELSE IF IsExc(to_python(ad, value, annots, defs).out)
    THEN [ad |-> to_python(ad, value, annots, defs).ad,
          out |-> to_python(ad, value, annots, defs).out, val |-> stored]
    ELSE to_python(ad, value, annots, defs)

\* PydanticSchemaField.get_prep_value (the JSON adaptation of django's
\* get_prep_value aside)
get_prep_value(ad, value, annots, defs) ==
    prepare_raw_value(ad, value, EmptyMapping, annots, defs)

Message(id) == V(id, <<>>)
Checked(ad, out, messages) == [ad |-> ad, out |-> out, val |-> V("messages", messages)]

\* try: self.adapter.validate_schema() except ImproperlyConfiguredSchema
schema_messages(outcome) ==
    IF IsExc(outcome) THEN <<Message("pydantic.E001")>> ELSE <<>>

\* the third block of check(), under include / exclude: the default (or the
\* schema's own, none for the schemas at hand) is adapted and validated again
check_export(field, d, messages, annots, defs) ==
    IF IsExc(d.out) THEN Checked(d.ad, d.out, messages)
    ELSE IF d.val = VNone THEN Checked(d.ad, Returned, messages)
    ELSE IF IsExc(get_prep_value(d.ad, d.val, annots, defs).out)
    THEN Checked(d.ad, get_prep_value(d.ad, d.val, annots, defs).out, messages)
    ELSE IF IsValidationError(
                validate_python(d.ad, get_prep_value(d.ad, d.val, annots, defs).val,
                                "None", "None", annots, defs).out)
    THEN Checked(d.ad, Returned, messages \o <<Message("pydantic.W003")>>)
    ELSE Checked(d.ad,
                 validate_python(d.ad, get_prep_value(d.ad, d.val, annots, defs).val,
                                 "None", "None", annots, defs).out,
                 messages)

\* what follows the second block of check()
check_rest(field, ad, out, messages, annots, defs) ==
    IF IsExc(out) THEN Checked(ad, out, messages)
    ELSE IF {"include", "exclude"} \cap DOMAIN field.export_kwargs = {}
    THEN Checked(ad, Returned, messages)
    ELSE check_export(field, get_default(field, ad, annots, defs), messages, annots, defs)

\* the second block of check(): self.get_prep_value(self.get_default()) when
\* there is a default; only a validation error becomes a message (E002)
check_default(field, d, messages, annots, defs) ==
    IF ~has_default(field) THEN check_rest(field, d.ad, Returned, messages, annots, defs)
    ELSE IF IsValidationError(d.out)
    THEN check_rest(field, d.ad, Returned, messages \o <<Message("pydantic.E002")>>,
                    annots, defs)
    ELSE IF IsExc(d.out) THEN Checked(d.ad, d.out, messages)
    ELSE check_rest(field, d.ad, get_prep_value(d.ad, d.val, annots, defs).out, messages,
                    annots, defs)

\* PydanticSchemaField.check (django's own checks aside)
check(field, ad, annots, defs) ==
    check_default(field, get_default(field, validate_schema(ad, annots, defs).ad, annots, defs),
                  schema_messages(validate_schema(ad, annots, defs).out), annots, defs)

\* PydanticSchemaField.contribute_to_class(cls, name): the adapter is bound,
\* django names the field and puts its descriptor on the class
contribute_to_class(field, ad, cls, name) ==
    [field |-> [field EXCEPT !.name = name, !.model = cls],
     ad |-> bind(ad, cls, name).ad,
     out |-> IF IsExc(bind(ad, cls, name).out) THEN bind(ad, cls, name).out ELSE Returned]

(***************************************************************************)
(* A field is declared, contributed to a model class, checked, rebuilt     *)
(* from what it deconstructs to, and values are converted and assigned.    *)
(***************************************************************************)
FieldIds == AdapterIds

\* schema=None leaves the schema to the model's annotation
FieldSchemas == {NoneSchema, Cls("Bar"), Alias("list", <<Cls("int")>>)}
Defaults == BarInstances \cup {VNone, VStr, Callable(VDictOf(<<>>))}
NullChoices == {EmptyMapping, [key \in {"null"} |-> "True"]}
DefaultChoices == {EmptyMapping} \cup {[key \in {"default"} |-> d] : d \in Defaults}
ExportChoices ==
    {EmptyMapping, [key \in {"include"} |-> "a"], [key \in {"exclude"} |-> "a"]}
    \cup {[key \in {k} |-> "True"] :
             k \in {"exclude_none", "exclude_defaults", "exclude_unset"}}
FieldKwargs ==
    {ChainMap(n, ChainMap(d, e)) : n \in NullChoices, d \in DefaultChoices, e \in ExportChoices}
\* what to_python is given, what an attribute is assigned
InputValues == {VInt, VStr, VDictOf(<<>>), VBar(<<VNone>>), Json(VDictOf(<<VInt>>))}
AssignedValues == {VNone, VStr, VDictOf(<<VNumStr>>)}

\* the model class the field is declared on
ModelClass == 1

InitField ==
    /\ instances = [i \in AdapterIds |-> IF i = 1 THEN 1 ELSE NoInstance]
    /\ \E schema \in FieldSchemas, kw \in FieldKwargs :
          /\ fields = [i \in FieldIds |->
                         IF i = 1 THEN field_init(schema, "None", kw).field ELSE NoField]
          /\ dicts = [i \in AdapterIds |->
                        IF i = 1 THEN field_init(schema, "None", kw).adapter ELSE EmptyDict]
    /\ \E annotation \in {Missing, Cls("Bar")} :
          annotations = [o \in Owners |-> [a \in AttNames |->
                            IF a = "f" /\ o = ModelClass THEN annotation ELSE Missing]]
    /\ defined = ModuleNames
    /\ threads = IdleThreads
    /\ kwargs = EmptyMapping
    /\ objects = [i \in FieldIds |-> NoValue]
    /\ ret = [op |-> "init", ad |-> 1, arg |-> NoValue, out |-> Returned, val |-> NoValue,
              found |-> Missing, prev |-> "", passed |-> EmptyMapping,
              given |-> EmptyMapping]

\* class Model(models.Model): f = SchemaField(...)
ContributeToClass(i, cls, name) ==
    /\ Exists(i) /\ fields[i].model = NoOwner
    /\ fields' = [fields EXCEPT ![i] = contribute_to_class(fields[i], Self(i), cls, name).field]
    /\ SetDict(i, contribute_to_class(fields[i], Self(i), cls, name).ad)
    /\ ret' = Ret("contribute_to_class", i, NoValue,
                  contribute_to_class(fields[i], Self(i), cls, name).out, NoValue, Missing)
    /\ UNCHANGED <<instances, annotations, defined, threads, kwargs, objects>>

\* the field a deconstruct() of field i gives back: field j, when it did not raise
Rebuilt(i, j, d) ==
    IF IsExc(d.out)
    THEN /\ SetDict(i, d.ad)
         /\ UNCHANGED <<instances, fields>>
    ELSE /\ instances' = [instances EXCEPT ![j] = j]
         /\ dicts' = [dicts EXCEPT ![instances[i]] = d.ad, ![j] = reconstruct(d).adapter]
         /\ fields' = [fields EXCEPT ![j] = reconstruct(d).field]

\* _, _, args, kwargs = field.deconstruct(); PydanticSchemaField(*args, **kwargs)
Reconstruct(i, j) ==
    /\ Exists(i) /\ ~Exists(j)
    /\ Rebuilt(i, j, deconstruct(fields[i], Self(i), annotations, defined))
    /\ ret' = Handed(Ret("reconstruct", i, NoValue,
                         deconstruct(fields[i], Self(i), annotations, defined).out,
                         NoValue, Missing),
                     EmptyMapping,
                     deconstruct(fields[i], Self(i), annotations, defined).kwargs)
    /\ UNCHANGED <<annotations, defined, threads, kwargs, objects>>

\* field.check()
Check(i) ==
    /\ Exists(i)
    /\ SetDict(i, check(fields[i], Self(i), annotations, defined).ad)
    /\ ret' = Ret("check", i, NoValue, check(fields[i], Self(i), annotations, defined).out,
                  check(fields[i], Self(i), annotations, defined).val, Missing)
    /\ UNCHANGED <<instances, annotations, defined, threads, elsewhere>>

\* field.to_python(value)
ToPython(i, value) ==
    /\ Exists(i)
    /\ SetDict(i, to_python(Self(i), value, annotations, defined).ad)
    /\ ret' = Ret("to_python", i, value, to_python(Self(i), value, annotations, defined).out,
                  to_python(Self(i), value, annotations, defined).val, Missing)
    /\ UNCHANGED <<instances, annotations, defined, threads, elsewhere>>

\* instance.f = value, at construction or later
SetAttribute(i, value) ==
    /\ Exists(i) /\ fields[i].model # NoOwner
    /\ SetDict(i, set_attribute(fields[i], Self(i), objects[i], value, annotations, defined).ad)
    /\ objects' = [objects EXCEPT ![i] =
                     set_attribute(fields[i], Self(i), objects[i], value, annotations, defined).val]
    /\ ret' = Ret("set_attribute", i, value,
                  set_attribute(fields[i], Self(i), objects[i], value, annotations, defined).out,
                  NoValue, Missing)
    /\ UNCHANGED <<instances, annotations, defined, threads, kwargs, fields>>

NextField ==
    \/ ContributeToClass(1, ModelClass, "f")
    \/ Reconstruct(1, 2)
    \/ Check(1)
    \/ \E value \in InputValues : ToPython(1, value)
    \/ \E value \in AssignedValues : SetAttribute(1, value)

SpecField == InitField /\ [][NextField]_vars

\* two calls ended alike: the same exception, or equal values
SameResult(r1, r2) ==
    IF IsExc(r1.out) \/ IsExc(r2.out)
    THEN IsExc(r1.out) /\ IsExc(r2.out) /\ r1.out.name = r2.out.name
    ELSE same_value(r1.val, r2.val)

\* (name, path, args, kwargs) == (name, path, args, kwargs)
SameDeconstruct(d1, d2) ==
    /\ ~IsExc(d1.out) /\ ~IsExc(d2.out)
    /\ d1.name = d2.name /\ d1.path = d2.path /\ d1.args = d2.args
    /\ DOMAIN d1.kwargs = DOMAIN d2.kwargs
    /\ \A key \in DOMAIN d1.kwargs :
          IF key = "schema" THEN equals(d1.kwargs[key], d2.kwargs[key])
          ELSE d1.kwargs[key] = d2.kwargs[key]

\* C18: the field rebuilt from a field's deconstruct() has the same
\* get_default() as the field, and deconstructs to the same (name, path, args,
\* kwargs)
C18_DeconstructFixedPoint ==
    (ret.op = "reconstruct" /\ ~IsExc(ret.out))
        => /\ SameResult(get_default(fields[1], Self(1), annotations, defined),
                         get_default(fields[2], Self(2), annotations, defined))
           /\ SameDeconstruct(deconstruct(fields[1], Self(1), annotations, defined),
                              deconstruct(fields[2], Self(2), annotations, defined))

\* the field's validator exists: its schema resolved
Resolved(i) == Self(i).type_adapter.k # "missing"

\* the schema the validator of field i goes by
ValidatorSchema(i) == Self(i).type_adapter.args[1]

Conforms(i, v) == validate(ValidatorSchema(i), v, "True", "None") = v
Violates(i, v) == validate(ValidatorSchema(i), v, "None", "None") = ValidationError
RaisedDjangoError == IsExc(ret.out) /\ ret.out.name = "django.ValidationError"

Untyped(i) ==
    /\ fields[i].model # NoOwner
    /\ fields[i].schema = NoneSchema
    /\ annotations[fields[i].model][fields[i].name] = Missing

Reported(id) == \E n \in 1..Len(ret.val.items) : ret.val.items[n] = Message(id)

\* C20: the class of a field whose schema cannot be resolved is defined all the
\* same, and the field's check() returns messages with pydantic.E001 among them
C20_UntypedFieldReportsE001 ==
    /\ ret.op = "contribute_to_class" => ret.out = Returned
    /\ (ret.op = "check" /\ Untyped(1)) => ret.out = Returned /\ Reported("pydantic.E001")

(***************************************************************************)
(* The three ways an adapter is made (types.py 43-67) and the binding it   *)
(* reports afterwards, through any sequence of bind() calls.               *)
(***************************************************************************)
\* BaseSchemaAdapter.from_type: cls(schema, config, None, None, **kwargs)
from_type(schema, config, allow_null) ==
    NewAdapter(schema, config, NoOwner, NoAttname, allow_null, EmptyMapping)

\* BaseSchemaAdapter.from_annotation: cls(None, config, parent_type, attname, **kwargs)
from_annotation(parent_type, attname, config, allow_null) ==
    NewAdapter(NoneSchema, config, parent_type, attname, allow_null, EmptyMapping)

BoundSchemas == {NoneSchema, Cls("int"), Str("Foo")}

\* the adapters the constructor and the two class methods can make
Constructed ==
    {NewAdapter(schema, "None", p, n, allow_null, EmptyMapping) :
        schema \in BoundSchemas, p \in Owners \cup {NoOwner},
        n \in AttNames \cup {NoAttname}, allow_null \in {"None", "True"}}
    \cup {from_type(schema, "None", allow_null) :
             schema \in BoundSchemas, allow_null \in {"None", "True"}}
    \cup {from_annotation(p, n, "None", allow_null) :
             p \in Owners, n \in AttNames, allow_null \in {"None", "True"}}

InitBound ==
    /\ instances = [i \in AdapterIds |-> IF i = 1 THEN 1 ELSE NoInstance]
    /\ \E ad \in Constructed : dicts = [i \in AdapterIds |-> IF i = 1 THEN ad ELSE EmptyDict]
    /\ annotations = [o \in Owners |-> [a \in AttNames |->
                         IF a = "f" /\ o = 1 THEN Cls("int") ELSE StaticAnnotation(o)]]
    /\ defined = {}
    /\ threads = IdleThreads
    /\ kwargs = EmptyMapping
    /\ fields = NoFields
    /\ objects = NoObjects
    /\ ret = [op |-> "init", ad |-> 1, arg |-> NoValue, out |-> Returned, val |-> NoValue,
              found |-> Missing, prev |-> "", passed |-> EmptyMapping,
              given |-> EmptyMapping]

\* adapter.is_bound is read
IsBound(i) ==
    /\ Exists(i)
    /\ ret' = Ret("is_bound", i, NoValue, BoolValue(is_bound(Self(i))), NoValue,
                  Self(i).prepared_schema)
    /\ UNCHANGED <<instances, dicts, annotations, defined, threads, elsewhere>>

NextBound ==
    \/ \E p \in Owners \cup {NoOwner}, n \in AttNames \cup {NoAttname} : Bind(1, p, n)
    \/ IsBound(1)
    \/ PreparedSchema(1)

SpecBound == InitBound /\ [][NextBound]_vars

\* C21: whenever is_bound is read, after any constructor and any sequence of
\* bind() calls, it is True exactly when the adapter has both a parent type
\* and an attribute name
C21_BoundIffBothSet ==
    ret.op = "is_bound"
        => ret.out = BoolValue(Self(1).parent_type # NoOwner /\ Self(1).attname # NoAttname)

\* C21 witness: an adapter that holds a parent type but no attribute name
\* reports itself unbound
C21_Witness ==
    /\ ret.op = "is_bound" /\ ret.out = BoolValue(FALSE)
    /\ Self(1).parent_type # NoOwner /\ Self(1).attname = NoAttname

\* C22: adapter equality is symmetric: when a == b has been evaluated, b == a
\* evaluated next gives the same result, whatever the binding of the two
\* adapters and whether or not their schemas resolve
C22_EqSymmetric ==
    (ret.op = "eq" /\ ~IsExc(ret.out))
        => eq(Self(Other(ret.ad)), Self(ret.ad), annotations, defined).out = ret.out

(***************************************************************************)
(* Forward references inside parameterized generics (types.py 152-166):    *)
(* an adapter declared with such a schema, or bound to an attribute        *)
(* annotated with one, resolves it while the owners' module loads.         *)
(***************************************************************************)
\* typing.List["Foo"], list[ForwardRef("Foo")], dict[str, ForwardRef("Foo")],
\* nested generics, unions, Annotated, and a generic alias whose origin is
\* itself a forward reference
ResolveSchemas ==
    {Alias("list", <<Ref("Foo")>>),
     Gen("list", <<Ref("Foo")>>),
     Gen("dict", <<Cls("str"), Ref("Foo")>>),
     Gen("dict", <<Ref("Foo"), Alias("list", <<Ref("int")>>)>>),
     Alias("Union", <<Cls("int"), Ref("Foo")>>),
     Alias("Union", <<Cls("int"), Ref("int")>>),
     Gen("tuple", <<Ref("Foo"), Cls("int"),
                    Gen("list", <<Alias("Union", <<Ref("Foo"), NoneT>>)>>)>>),
     Alias("Annotated", <<Ref("Foo"), DataclassInstance("Gt", <<Lit("0")>>)>>),
     Gen(RefOrigin, <<Ref("Foo")>>),
     Gen(RefOrigin, <<Cls("int")>>)}

\* field: ty.List["int"] = SchemaField()
AnnotatedSchemas == {Alias("list", <<Ref("int")>>), Gen("dict", <<Cls("str"), Ref("Foo")>>)}

InitResolve ==
    /\ instances = [i \in AdapterIds |-> IF i = 1 THEN 1 ELSE NoInstance]
    /\ \E schema \in ResolveSchemas \cup {NoneSchema}, p \in Owners \cup {NoOwner},
          allow_null \in {"None", "True"} :
          dicts = [i \in AdapterIds |->
                     IF i = 1
                     THEN NewAdapter(schema, "None", p, "f", allow_null, EmptyMapping)
                     ELSE EmptyDict]
    /\ \E annotation \in AnnotatedSchemas :
          annotations = [o \in Owners |-> [a \in AttNames |->
                            IF a = "f" /\ o = 1 THEN annotation ELSE Missing]]
    /\ defined \in SUBSET ModuleNames
    /\ threads = IdleThreads
    /\ kwargs = EmptyMapping
    /\ fields = NoFields
    /\ objects = NoObjects
    /\ ret = [op |-> "init", ad |-> 1, arg |-> NoValue, out |-> Returned, val |-> NoValue,
              found |-> Missing, prev |-> "", passed |-> EmptyMapping,
              given |-> EmptyMapping]

NextResolve ==
    \/ PreparedSchema(1)
    \/ \E p \in Owners \cup {NoOwner} : Bind(1, p, "f")
    \/ \E n \in ModuleNames : DefineName(n)

SpecResolve == InitResolve /\ [][NextResolve]_vars

IsGeneric(t) == t.k \in {"alias", "gen"}

RECURSIVE HasRef(_)
HasRef(t) ==
    \/ t.k = "ref"
    \/ IsGeneric(t) /\ (t.name = RefOrigin \/ \E n \in 1..Len(t.args) : HasRef(t.args[n]))

\* the same generic with every forward reference replaced by the type its
\* name denotes, everything else as it was
RECURSIVE Substituted(_)
Substituted(t) ==
    IF t.k = "ref" THEN Cls(t.name)
    ELSE IF IsGeneric(t)
    THEN [t EXCEPT !.name = IF t.name = RefOrigin THEN "list" ELSE t.name,
                   !.args = [n \in 1..Len(t.args) |-> Substituted(t.args[n])]]
    ELSE t

\* a type with every typing alias of a class (typing.List[..]) spelled as the
\* builtin generic (list[..])
RECURSIVE Builtin(_)
Builtin(t) ==
    IF IsGeneric(t)
    THEN [t EXCEPT !.k = IF t.name \in {"Union", "Literal", "Annotated"} THEN t.k ELSE "gen",
                   !.args = [n \in 1..Len(t.args) |-> Builtin(t.args[n])]]
    ELSE t

\* no union in the type names one member twice
RECURSIVE DistinctMembers(_)
DistinctMembers(t) ==
    IsGeneric(t) =>
        /\ IsUnion(t) => \A m, n \in 1..Len(t.args) : m # n => t.args[m] # t.args[n]
        /\ \A n \in 1..Len(t.args) : DistinctMembers(t.args[n])

ResolvedGeneric ==
    /\ ret.op = "prepared_schema" /\ ~IsExc(ret.out)
    /\ IsGeneric(Declared(Self(1))) /\ HasRef(Declared(Self(1)))

\* C23: a parameterized generic holding forward references, at any depth,
\* resolves to the same generic with each forward reference replaced by the
\* type it evaluates to, the other arguments unchanged and in order
C23_SameGenericResolved ==
    ResolvedGeneric => ret.out = Substituted(Declared(Self(1)))

\* C23, amended: the resolved schema has the origin and the arguments of the
\* declared one with each forward reference replaced, typing aliases of a
\* class spelled as builtin generics, provided no union names a member twice
\* once the references are replaced
C23_SameOriginAndArguments ==
    (ResolvedGeneric /\ DistinctMembers(Substituted(Declared(Self(1)))))
        => Builtin(ret.out) = Builtin(Substituted(Declared(Self(1))))

\* C23 witness: a forward reference two levels down, inside a union inside a
\* list inside a tuple, is replaced by the class the module defines
C23_Witness ==
    /\ ResolvedGeneric
    /\ Self(1).schema.name = "tuple"
    /\ ret.out = Gen("tuple", <<Cls("Foo"), Cls("int"),
                                Gen("list", <<Alias("Union", <<Cls("Foo"), NoneT>>)>>)>>)

\* C24: unwrapping a GenericContainer whose args are empty returns its origin
\* itself, so an unparameterized generic alias (typing.List) wrapped and then
\* unwrapped is the bare origin type (list)
C24_EmptyArgsUnwrapToOrigin ==
    [][(ret.op = "wrap" /\ ret'.op = "unwrap")
          => /\ (ret.out.k = "container" /\ ret.out.args = <<>>)
                    => ret'.out = Cls(ret.out.name)
             /\ (ret.prev = "" /\ IsGeneric(ret.found) /\ ret.found.args = <<>>)
                    => ret'.out = Cls(ret.found.name)]_vars

\* C24 witness: typing.List went through wrap and unwrap and came back as list
C24_Witness ==
    /\ ret.op = "unwrap" /\ ret.prev = ""
    /\ ret.found = Alias("list", <<>>)
    /\ ret.out = Cls("list")

\* the container a serialize() call was given and the parts of what it wrote
SerializedContainer == ret.op = "serialize" /\ ret.val.k = "container"

ContainerCall ==
    /\ ret.out.e = "call" /\ ret.out.name = "GenericContainer"
    /\ ret.out.module = "django_pydantic_field.compat.django"
    /\ Len(ret.out.args) >= 1
    /\ ret.out.args[1] = serialize(OriginObject(ret.val.name)).expr

ArgumentsTuple ==
    Expr("tuple", "", "", [n \in 1..Len(ret.val.args) |-> serialize(ret.val.args[n]).expr])

ImportsOfParts ==
    {"django_pydantic_field.compat.django"}
        \cup serialize(OriginObject(ret.val.name)).imports
        \cup UNION {serialize(ret.val.args[n]).imports : n \in 1..Len(ret.val.args)}

\* C25: a generic container with arguments is written as
\* TypeName(origin_expr, (arg_expr, ...)), one without arguments as
\* TypeName(origin_expr), and the imports are those of the container type,
\* the origin and every argument together
C25_ArgsTupleOrOriginOnly ==
    SerializedContainer
        => /\ ContainerCall
           /\ IF ret.val.args # <<>>
              THEN Len(ret.out.args) = 2 /\ ret.out.args[2] = ArgumentsTuple
              ELSE Len(ret.out.args) = 1
           /\ ret.passed = ImportsOfParts

\* C25, amended: a generic container is always written with both of its
\* slots, TypeName(origin_expr, args_expr), where args_expr is the tuple
\* display of the argument expressions, empty when there are none; the
\* imports are those of the container type, the origin and every argument
C25_OriginAndArgsTuple ==
    SerializedContainer
        => /\ ContainerCall
           /\ Len(ret.out.args) = 2 /\ ret.out.args[2] = ArgumentsTuple
           /\ ret.passed = ImportsOfParts

\* C25 witness: list[typing.List] is written as a container with one
\* argument, which is itself a container written with an empty tuple
C25_Witness ==
    /\ SerializedContainer
    /\ ret.val = Container("list", <<Container("list", <<>>)>>)
    /\ Len(ret.out.args[2].args) = 1
    /\ ret.out.args[2].args[1].args[2] = Expr("tuple", "", "", <<>>)

(***************************************************************************)
(* The form field (forms.py) and the REST serializer field                 *)
(* (v2/rest_framework/fields.py): each makes its adapter unbound and binds *)
(* it when the form or the parent serializer asks for the field.  Forms    *)
(* and serializer classes are the owners.                                  *)
(***************************************************************************)
\* fault: the adapter is bound again on every call
bind_always(ad, form, field_name) == bind(ad, form, field_name).ad

\* forms.SchemaField.get_bound_field: the adapter's __dict__ afterwards
get_bound_field(ad, form, field_name) ==
    IF ~is_bound(ad) THEN bind(ad, form, field_name).ad ELSE ad

\* rest_framework SchemaField.bind(field_name, parent); parent_type is
\* type(parent), one serializer object per serializer class
rest_bind(ad, field_name, parent_class) ==
    IF ~is_bound(ad) THEN bind(ad, parent_class, field_name).ad ELSE ad

\* SchemaAdapter(schema, config, None, None, allow_null, **self.export_kwargs)
InitForm ==
    /\ instances = [i \in AdapterIds |-> IF i = 1 THEN 1 ELSE NoInstance]
    /\ \E schema \in {Cls("int"), Str("Foo")}, allow_null \in AllowNull :
          dicts = [i \in AdapterIds |->
                     IF i = 1
                     THEN NewAdapter(schema, "None", NoOwner, NoAttname, allow_null,
                                     EmptyMapping)
                     ELSE EmptyDict]
    /\ annotations = [o \in Owners |-> [a \in AttNames |-> Missing]]
    /\ defined \in SUBSET ModuleNames
    /\ threads = IdleThreads
    /\ kwargs = EmptyMapping
    /\ fields = NoFields
    /\ objects = NoObjects
    /\ ret = [op |-> "init", ad |-> 1, arg |-> NoValue, out |-> Returned, val |-> NoValue,
              found |-> Missing, prev |-> "", passed |-> EmptyMapping,
              given |-> EmptyMapping]

GetBoundField(i, form, field_name) ==
    /\ Exists(i)
    /\ SetDict(i, get_bound_field(Self(i), form, field_name))
    /\ ret' = Ret("get_bound_field", i, NoValue, Returned, NoValue, Self(i).prepared_schema)
    /\ UNCHANGED <<instances, annotations, defined, threads, elsewhere>>

RestBind(i, field_name, parent_class) ==
    /\ Exists(i)
    /\ SetDict(i, rest_bind(Self(i), field_name, parent_class))
    /\ ret' = Ret("bind", i, NoValue, Returned, NoValue, Self(i).prepared_schema)
    /\ UNCHANGED <<instances, annotations, defined, threads, elsewhere>>

NextForm ==
    \/ \E form \in Owners, field_name \in AttNames : GetBoundField(1, form, field_name)
    \/ \E parent_class \in Owners, field_name \in AttNames : RestBind(1, field_name, parent_class)
    \/ PreparedSchema(1)
    \/ \E v \in {VInt, VNone} : ValidatePython(1, v)
    \/ \E n \in ModuleNames : DefineName(n)

SpecForm == InitForm /\ [][NextForm]_vars

\* C26: once a get_bound_field / bind call has bound the field's adapter,
\* a later such call, whatever form or parent serializer it names, leaves
\* the adapter's parent_type, attname and caches as they were
C26_BindsOnlyWhileUnbound ==
    [][(Self(1).parent_type # NoOwner /\ Self(1).attname # NoAttname
           /\ ret'.op \in {"get_bound_field", "bind"})
          => dicts' = dicts]_vars

\* C26 witness: a field bound to one form, its schema resolved and its
\* validator built, was asked for by a call and kept that binding and both
\* caches
C26_Witness ==
    /\ ret.op = "get_bound_field"
    /\ ret.prev = "" /\ ret.found # Missing
    /\ Self(1).parent_type = 1 /\ Self(1).attname = "f"
    /\ Self(1).prepared_schema # Missing /\ Self(1).type_adapter # Missing

(***************************************************************************)
(* An adapter and its copy through everything a single thread does with    *)
(* them: binding, resolving, validating, dumping, copying.                 *)
(***************************************************************************)
InitCached ==
    /\ instances = [i \in AdapterIds |-> IF i = 1 THEN 1 ELSE NoInstance]
    /\ \E schema \in {NoneSchema, Str("Foo"), Alias("Union", <<Cls("int"), NoneT>>)},
          config \in Configs, allow_null \in AllowNull, p \in Owners \cup {NoOwner} :
          dicts = [i \in AdapterIds |->
                     IF i = 1
                     THEN NewAdapter(schema, config, p, "f", allow_null, EmptyMapping)
                     ELSE EmptyDict]
    /\ annotations = [o \in Owners |-> [a \in AttNames |->
                         IF a = "f" THEN (IF o = 1 THEN Cls("int") ELSE Str("Foo"))
                         ELSE Missing]]
    /\ defined \in SUBSET ModuleNames
    /\ threads = IdleThreads
    /\ kwargs = EmptyMapping
    /\ fields = NoFields
    /\ objects = NoObjects
    /\ ret = [op |-> "init", ad |-> 1, arg |-> NoValue, out |-> Returned, val |-> NoValue,
              found |-> Missing, prev |-> "", passed |-> EmptyMapping,
              given |-> EmptyMapping]

CallCached(i) ==
    \/ \E p \in Owners \cup {NoOwner} : Bind(i, p, "f")
    \/ PreparedSchema(i)
    \/ ValidateSchema(i)
    \/ \E v \in {VNone, VInt} : ValidatePython(i, v)
    \/ ValidateJson(i, Json(VInt), "None")
    \/ DumpPython(i, VInt, EmptyMapping)
    \/ DumpJson(i, VInt, EmptyMapping)

NextCached ==
    \/ \E i \in AdapterIds : CallCached(i)
    \/ Copy(1, 2)
    \/ \E n \in ModuleNames : DefineName(n)

SpecCached == InitCached /\ [][NextCached]_vars

\* C27: whenever an adapter holds a cached validator it holds a cached
\* prepared schema too, and the validator is the one built over that schema,
\* null-wrapped exactly when allow_null is true, with the adapter's config
C27_ValidatorOverPreparedSchema ==
    \A i \in AdapterIds :
        (Exists(i) /\ Self(i).type_adapter # Missing)
            => /\ Self(i).prepared_schema # Missing
               /\ Self(i).type_adapter =
                     TypeAdapter(IF Self(i).allow_null = "True"
                                 THEN Nullable(Self(i).prepared_schema)
                                 ELSE Self(i).prepared_schema,
                                 Self(i).config)

\* C27 witness: a copy made of an adapter with both caches filled was bound
\* to the other owner and validated there: its validator is over the other
\* owner's annotation while the original keeps its own
C27_Witness ==
    /\ Exists(2)
    /\ Self(1).type_adapter # Missing /\ Self(2).type_adapter # Missing
    /\ Self(1).prepared_schema = Cls("int")
    /\ Self(2).prepared_schema = Cls("Foo")
    /\ Self(2).allow_null = "True"

\* C28: validate_schema() changes nothing of the adapter: schema, config,
\* binding, allow_null, export kwargs and both caches, present or absent, are
\* after the call what they were before it, whether it returned or raised
C28_ValidateSchemaChangesNothing ==
    [][ret'.op = "validate_schema" => (dicts' = dicts /\ instances' = instances)]_vars

\* C28 witness: validate_schema() returned for an adapter whose schema was
\* not resolved before, and the adapter still holds neither cache
C28_Witness ==
    /\ ret.op = "validate_schema" /\ ret.out = Returned
    /\ Self(ret.ad).schema = Str("Foo")
    /\ NoCaches(Self(ret.ad))

\* C29: when the assignment of a value to a schema field's attribute raises
\* ValidationError, the model instance keeps the value the attribute had
C29_FailedAssignmentKeepsValue ==
    [][(ret'.op = "set_attribute" /\ IsExc(ret'.out)
           /\ ret'.out.name = "django.ValidationError")
          => objects' = objects]_vars

\* C29 witness: the attribute held a validated Bar, the assignment of a
\* string raised ValidationError, and the attribute still holds the Bar
C29_Witness ==
    /\ ret.op = "set_attribute" /\ ret.arg = VStr
    /\ RaisedDjangoError
    /\ objects[1].vk = "Bar"

(***************************************************************************)
(* The REST renderer and parser (v2/rest_framework): each builds its       *)
(* adapter from the context mapping the framework hands it, kept here in   *)
(* `kwargs`; the adapter last built is adapter 1.                          *)
(***************************************************************************)
\* type(ctx.get("view"))
ViewClass == 1

\* fault: the export options are popped out of the context itself
extracted_in_place(ctx) ==
    [ctx |-> extract_export_kwargs(ctx).kwargs, out |-> extract_export_kwargs(ctx).out]

\* SchemaAdapter.extract_export_kwargs(dict(ctx)): the options are popped
\* out of a copy, which is dropped
extracted_from_copy(ctx) ==
    [ctx |-> ctx, out |-> extract_export_kwargs(ctx).out]

\* SchemaAdapter(schema, config, type(ctx.get("view")), None, **export_kwargs)
make_adapter(ctx, schema, config_key) ==
    [ctx |-> extracted_from_copy(ctx).ctx, made |-> TRUE,
     adapter |-> NewAdapter(schema, Get(ctx, config_key), ViewClass, NoAttname, "None",
                            extracted_from_copy(ctx).out)]

\* AnnotatedAdapterMixin.get_adapter: from the schema in the context, else
\* from the class's own type argument, else None
get_adapter(ctx, schema_key, config_key, orig_class) ==
    IF schema_key \in DOMAIN ctx
    THEN make_adapter(ctx, Cls(ctx[schema_key]), config_key)
    ELSE IF orig_class # NoneSchema
    THEN make_adapter(ctx, orig_class, config_key)
    ELSE [ctx |-> ctx, made |-> FALSE, adapter |-> EmptyDict]

Done(ctx, ad, out, val) == [ctx |-> ctx, ad |-> ad, out |-> out, val |-> val]

\* return adapter.dump_json(prep_data); a validation error is returned as
\* its JSON text, anything else raised propagates
render_validated(ctx, v, annots, defs) ==
    IF IsValidationError(v.out) THEN Done(ctx, v.ad, Returned, V("errors", <<>>))
    ELSE IF IsExc(v.out) THEN Done(ctx, v.ad, v.out, NoValue)
    ELSE Done(ctx, dump_json(v.ad, v.val, EmptyMapping, annots, defs).ad,
              dump_json(v.ad, v.val, EmptyMapping, annots, defs).out,
              dump_json(v.ad, v.val, EmptyMapping, annots, defs).val)

\* SchemaRenderer.render_pydantic_model
render_pydantic_model(ctx, instance) ==
    Done(extracted_from_copy(ctx).ctx, EmptyDict, Returned, Json(instance))

\* SchemaRenderer.render, for a response that is not an exception
render_with(g, data, annots, defs) ==
    IF ~g.made /\ data.vk = "Foo" THEN render_pydantic_model(g.ctx, data)
    ELSE IF ~g.made
    THEN Done(g.ctx, g.adapter,
              Exc("RuntimeError", <<"Schema should be either explicitly set", NoOwner, NoAttname>>, ""),
              NoValue)
    ELSE render_validated(g.ctx, validate_python(g.adapter, data, "None", "None", annots, defs),
                          annots, defs)

render(ctx, data, orig_class, annots, defs) ==
    render_with(get_adapter(ctx, "renderer_schema", "renderer_config", orig_class),
                data, annots, defs)

\* return adapter.validate_json(stream.read()); a validation error is raised
\* as ParseError
parse_validated(ctx, v) ==
    IF IsValidationError(v.out)
    THEN Done(ctx, v.ad, Exc("ParseError", v.out.msg, v.out.name), NoValue)
    ELSE Done(ctx, v.ad, v.out, v.val)

parse_with(g, stream, annots, defs) ==
    IF ~g.made
    THEN Done(g.ctx, g.adapter,
              Exc("RuntimeError", <<"Schema should be either explicitly set", NoOwner, NoAttname>>, ""),
              NoValue)
    ELSE parse_validated(g.ctx, validate_json(g.adapter, stream, "None", annots, defs))

\* SchemaParser.parse
parse(ctx, stream, orig_class, annots, defs) ==
    parse_with(get_adapter(ctx, "parser_schema", "parser_config", orig_class),
               stream, annots, defs)

\* contexts: a schema for the renderer or the parser or none, a config or
\* none, and export options, one of them deprecated
SchemaEntries ==
    {EmptyMapping, [key \in {"renderer_schema"} |-> "int"], [key \in {"parser_schema"} |-> "int"]}
ConfigEntries == {EmptyMapping, [key \in {"renderer_config"} |-> "ConfigDict"]}
OptionEntries == UNION {[keys -> OptionValues] : keys \in SUBSET {"strict", "by_alias", "indent"}}
Contexts ==
    {ChainMap(e, ChainMap(c, o)) : e \in SchemaEntries, c \in ConfigEntries, o \in OptionEntries}

\* SchemaRenderer or SchemaRenderer[int], SchemaParser or SchemaParser[int]
OrigClasses == {NoneSchema, Cls("int")}

InitContext ==
    /\ QuietAdapters
    /\ kwargs \in Contexts
    /\ ret = [op |-> "init", ad |-> 1, arg |-> NoValue, out |-> Returned, val |-> NoValue,
              found |-> Missing, prev |-> "", passed |-> EmptyMapping,
              given |-> EmptyMapping]

GetAdapter(schema_key, config_key, orig_class) ==
    /\ kwargs' = get_adapter(kwargs, schema_key, config_key, orig_class).ctx
    /\ dicts' = [dicts EXCEPT ![1] = get_adapter(kwargs, schema_key, config_key, orig_class).adapter]
    /\ ret' = Handed(Ret("get_adapter", 1, NoValue, Returned, NoValue, Missing), kwargs,
                     get_adapter(kwargs, schema_key, config_key, orig_class).adapter.export_kwargs)
    /\ UNCHANGED <<instances, annotations, defined, threads, fields, objects>>

Render(data, orig_class) ==
    /\ kwargs' = render(kwargs, data, orig_class, annotations, defined).ctx
    /\ dicts' = [dicts EXCEPT ![1] = render(kwargs, data, orig_class, annotations, defined).ad]
    /\ ret' = Handed(Ret("render", 1, data,
                         render(kwargs, data, orig_class, annotations, defined).out,
                         render(kwargs, data, orig_class, annotations, defined).val, Missing),
                     kwargs,
                     render(kwargs, data, orig_class, annotations, defined).ad.export_kwargs)
    /\ UNCHANGED <<instances, annotations, defined, threads, fields, objects>>

Parse(stream, orig_class) ==
    /\ kwargs' = parse(kwargs, stream, orig_class, annotations, defined).ctx
    /\ dicts' = [dicts EXCEPT ![1] = parse(kwargs, stream, orig_class, annotations, defined).ad]
    /\ ret' = Handed(Ret("parse", 1, stream,
                         parse(kwargs, stream, orig_class, annotations, defined).out,
                         parse(kwargs, stream, orig_class, annotations, defined).val, Missing),
                     kwargs,
                     parse(kwargs, stream, orig_class, annotations, defined).ad.export_kwargs)
    /\ UNCHANGED <<instances, annotations, defined, threads, fields, objects>>

NextContext ==
    \/ \E orig_class \in OrigClasses :
          \/ GetAdapter("renderer_schema", "renderer_config", orig_class)
          \/ GetAdapter("parser_schema", "parser_config", orig_class)
    \/ \E data \in {VInt, VNumStr, VStr, VFoo}, orig_class \in OrigClasses : Render(data, orig_class)
    \/ \E stream \in {Json(VInt), Json(VNumStr), Json(VStr)}, orig_class \in OrigClasses :
          Parse(stream, orig_class)

SpecContext == InitContext /\ [][NextContext]_vars

\* C30: get_adapter(ctx), render and parse leave the caller's context
\* mapping with exactly the keys and values it had, although the export
\* options are popped out of a mapping to build the adapter
C30_ContextUnchanged ==
    [][ret'.op \in {"get_adapter", "render", "parse"} => kwargs' = kwargs]_vars

\* C30 witness: an adapter was built with the strict option of a context
\* that also holds a deprecated key; the context still holds both
C30_Witness ==
    /\ ret.op = "get_adapter"
    /\ "strict" \in DOMAIN ret.passed
    /\ {"strict", "indent", "renderer_schema"} \subseteq DOMAIN kwargs
    /\ ret.given = kwargs

====
